---- MODULE Spec2Model ----
(***************************************************************************)
(* Model of the channel-processing notebook cell of src/color_plus.py      *)
(* (cell 4: path selection, loading, per-channel tasks, solar angles) and  *)
(* of the hand-over to the RGB generation cell (cell 5).                   *)
(***************************************************************************)
EXTENDS Integers, Sequences, FiniteSets, TLC

\* ------------------------------------------------------------------------
\* Bounds
\* ------------------------------------------------------------------------
\* longest channel selection list (CHANNELS_TO_PROCESS / DOWNLOAD_RESULTS)
MaxChannels == 2
\* size of the thread pool (MAX_PARALLEL_WORKERS of the configuration)
MAX_PARALLEL_WORKERS == 2
\* length of a non-empty coordinate array
MaxCoordLen == 1
\* widest full-resolution grid (number of columns) of the solar angle pixels
MaxGridWidth == 3
\* longest list of requested RGB products (RGB_PRODUCTS_TO_CREATE)
MaxRequested == 2
\* number of scenes cell 4 is executed for, one after the other
MaxScenes == 2
\* number of build requests made to the enhancement-table cache
MaxLutRequests == 3

\* ------------------------------------------------------------------------
\* Static data
\* ------------------------------------------------------------------------
Codes == {"C02", "C07", "C13"}

\* band number of a channel code, int(channel[1:])
BandId == ("C02" :> 2) @@ ("C07" :> 7) @@ ("C13" :> 13)

\* 'ir' if band_id >= 7 else 'visible'
ChannelTypeOf(c) == IF BandId[c] >= 7 THEN "ir" ELSE "visible"

\* native grid size of a channel in units of the coarsest (2 km) grid:
\* 0.5 km channels are sampled four times as densely as the 2 km channels
NativeShape(c) == IF c = "C02" THEN <<4, 4>> ELSE <<1, 1>>

SeqsUpTo(S, n) == UNION {[1..k -> S] : k \in 0..n}

Range(s) == {s[k] : k \in 1..Len(s)}

\* a value of a float array: np.nan or a number
nan == [nan |-> TRUE, v |-> 0]

Num(x) == [nan |-> FALSE, v |-> x]

\* no solar routine is being examined
NoInput ==
    [path |-> "none", routine |-> "none", valid |-> FALSE, cos_a |-> nan,
     cos_b |-> nan, t |-> 0, minute |-> 0, width |-> 1, column |-> 0]

\* the dicts of UltraFastIRProcessor: _temperature_luts, _color_luts,
\* _combined_luts
LutKinds == {"temperature", "color", "combined"}

\* no routine is examined alone
NoCall == [routine |-> "none"]

\* the names of the configuration globals, none of them bound
NoSettings ==
    [domain_type |-> <<>>, MAX_PARALLEL_WORKERS |-> <<>>,
     ENABLE_PARALLEL_PROCESSING |-> <<>>, ENABLE_SOLAR_ANGLES |-> <<>>,
     ENABLE_ULTRA_FAST_IR_LUTS |-> <<>>, COMPRESS_STORED_DATA |-> <<>>,
     CHANNELS_TO_PROCESS |-> <<>>, RGB_PRODUCTS_TO_CREATE |-> <<>>]

\* ------------------------------------------------------------------------
\* State
\* ------------------------------------------------------------------------
VARIABLES
    HAS_DOWNLOAD_SUMMARY,      \* 'DOWNLOAD_SUMMARY' in globals()
    DATA_LEVEL,                \* "level1b" | "level2"
    DOMAIN_TYPE,               \* "conus" | "full_disk" | "mesoscale"
    DOWNLOAD_RESULTS_empty,    \* DOWNLOAD_RESULTS has no entry at all
    channels_to_process,       \* the channel list of the run, in order
    pc,                        \* position of the cell's top-level script
    processing_path,           \* result of determine_processing_path
    load_i,                    \* loop index of the loader
    GOES_PROJECTION_AUTHORITY, \* "None" or the channel it was built from
    authority_inits,           \* number of assignments to the authority
    raw_data_store,            \* loaded records, in dict insertion order
    load_log,                  \* outcome of each loader iteration so far
    tasks,                     \* task list (channel codes, in order)
    enable_parallel,           \* "unread" | "on" | "off"
    seq_k,                     \* loop index of the sequential branch
    status,                    \* per channel: state of its future
    collected,                 \* futures already consumed by as_completed
    worker_calls,              \* per channel: number of calls of its worker function
    luts,                      \* codes cached in ULTRA_FAST_IR._combined_luts
    channels,                  \* data_store.channels
    metadata_order,            \* key order of data_store.metadata
    coordinate_data,           \* "None" or the channel it came from
    solar_angles,              \* "None" | "computed" | "pattern" | "uniform"
    store_calls,               \* per channel: number of store_channel calls
    successful,
    failed,
    enable_solar,              \* "unread" | "on" | "off"
    solar_calls,               \* number of solar angle computations
    coord_len,                 \* length of the captured coordinate arrays
    scan_time,                 \* "unread" | "None" | channel of the scan time
    rgb_runs,                  \* number of RGB generation passes started
    sza_input,                 \* one pixel's input of a solar routine
    sza,                       \* that pixel's solar zenith angle, 1/12 degree
    CHANNELS,                  \* cell 5: the channel codes of the exported store
    SOLAR_ANGLES,              \* cell 5: "None" or "grid"
    COORDINATE_DATA,           \* cell 5: "None" or "coords"
    RGB_PRODUCTS_TO_CREATE,    \* cell 5: the requested product names, in order
    rgb_pc,                    \* position in create_rgb_products_unified
    possible_products,         \* the products that passed the filter, in order
    rgb_k,                     \* loop index over possible_products
    rgb_products,              \* rgb_store.rgb_products
    attempts,                  \* the worker calls made so far, with their outcome
    scene,                     \* number of the execution of cell 4, from 1
    authority_scene,           \* execution that built the authority, 0 if None
    settings,                  \* the configuration globals: <<>> undefined, <<v>> set
    conf_pc,                   \* position of the walk through the configuration reads
    effective,                 \* the value each read obtained: <<>> not read yet
    conf_error,                \* the exceptions the configuration reads raised
    lut_cache,                 \* ULTRA_FAST_IR: the three table dicts, per code
    lut_builds,                \* number of constructions, per dict and code
    lut_returned,              \* the table the last request returned
    lut_requests,              \* number of build requests made so far
    pure_args,                 \* arguments of the routine that is examined alone
    pure_result                \* <<>> or its return value

\* the state of one execution of cell 4
cellVars == <<HAS_DOWNLOAD_SUMMARY, DATA_LEVEL, DOMAIN_TYPE, DOWNLOAD_RESULTS_empty,
          channels_to_process, pc, processing_path, load_i,
          GOES_PROJECTION_AUTHORITY, authority_inits, raw_data_store, load_log,
          tasks, enable_parallel, seq_k, status, collected, worker_calls, luts,
          channels,
          metadata_order, coordinate_data, solar_angles, store_calls,
          successful, failed, enable_solar, solar_calls, coord_len, scan_time,
          rgb_runs>>

angleVars == <<sza_input, sza>>

\* the state of the routines that are examined on their own
rgbVars == <<CHANNELS, SOLAR_ANGLES, COORDINATE_DATA, RGB_PRODUCTS_TO_CREATE, rgb_pc,
             possible_products, rgb_k, rgb_products, attempts>>

sceneVars == <<scene, authority_scene>>

\* the configuration globals and what the reads of them obtained
confVars == <<settings, conf_pc, effective, conf_error>>

\* the enhancement-table cache examined on its own
lutVars == <<lut_cache, lut_builds, lut_returned, lut_requests>>

\* one call of a routine without side effects
pureVars == <<pure_args, pure_result>>

sideVars == <<angleVars, rgbVars, sceneVars, confVars, lutVars, pureVars>>

vars == <<cellVars, sideVars>>

configVars == <<HAS_DOWNLOAD_SUMMARY, DATA_LEVEL, DOMAIN_TYPE,
                DOWNLOAD_RESULTS_empty, channels_to_process>>

loadVars == <<load_i, GOES_PROJECTION_AUTHORITY, authority_inits, raw_data_store,
              load_log>>

poolVars == <<status, collected, worker_calls>>

storeVars == <<channels, metadata_order, coordinate_data, store_calls,
               successful, failed>>

solarVars == <<solar_angles, enable_solar, solar_calls, coord_len, scan_time>>

\* ------------------------------------------------------------------------
\* Path selection
\* ------------------------------------------------------------------------
\* variant: the domain is tested before the data level and the summary
determine_processing_path_domain_first(has_summary, data_level, domain_type) ==
    IF domain_type = "full_disk" THEN "enhanced_full_disk"
    ELSE IF data_level = "level2" \/ has_summary THEN "level2_aware"
    ELSE "standard_conus"

determine_processing_path(has_summary, data_level, domain_type) ==
    IF data_level = "level2" \/ has_summary THEN "level2_aware"
    ELSE IF domain_type = "full_disk" THEN "enhanced_full_disk"
    ELSE "standard_conus"

\* ------------------------------------------------------------------------
\* The raw record store: a dict, kept as the sequence of its items
\* ------------------------------------------------------------------------
Keys(store) == [k \in 1..Len(store) |-> store[k].code]

HasKey(store, c) == \E k \in 1..Len(store) : store[k].code = c

Get(store, c) == store[CHOOSE k \in 1..Len(store) : store[k].code = c]

\* store[rec.code] = rec: a new key is appended, an old key keeps its place
Put(store, rec) ==
    IF HasKey(store, rec.code)
    THEN [k \in 1..Len(store) |-> IF store[k].code = rec.code THEN rec ELSE store[k]]
    ELSE Append(store, rec)

\* a loaded record: bad = its content makes the worker raise;
\* coord = it carries 'coordinate_data'
RawRecord(c, level, bad, coord) ==
    [code |-> c, data_level |-> level, bad |-> bad, coord |-> coord]

\* ------------------------------------------------------------------------
\* Parts of the program that are not running
\* ------------------------------------------------------------------------
\* cell 5 has not run
RgbIdle ==
    /\ CHANNELS = {}
    /\ SOLAR_ANGLES = "None"
    /\ COORDINATE_DATA = "None"
    /\ RGB_PRODUCTS_TO_CREATE = <<>>
    /\ rgb_pc = "idle"
    /\ possible_products = <<>>
    /\ rgb_k = 0
    /\ rgb_products = [p \in {} |-> 0]
    /\ attempts = <<>>

\* cell 4 is executed for the first time
SceneIdle ==
    /\ scene = 1
    /\ authority_scene = 0

\* no solar routine is being examined
AngleIdle ==
    /\ sza_input = NoInput
    /\ sza = <<>>

\* no enhancement table has been requested
LutIdle ==
    /\ lut_cache = [kind \in LutKinds |-> [c \in Codes |-> <<>>]]
    /\ lut_builds = [kind \in LutKinds |-> [c \in Codes |-> 0]]
    /\ lut_returned = <<>>
    /\ lut_requests = 0

\* no routine is examined alone
PureIdle ==
    /\ pure_args = NoCall
    /\ pure_result = <<>>

\* the configuration reads are not being examined
ConfIdle ==
    /\ settings = NoSettings
    /\ conf_pc = "idle"
    /\ effective = NoSettings
    /\ conf_error = {}

\* ------------------------------------------------------------------------
\* Init: the state after the prologue of cell 4 (lines 27-30, 191, 340)
\* ------------------------------------------------------------------------
Init ==
    /\ HAS_DOWNLOAD_SUMMARY \in BOOLEAN
    /\ DATA_LEVEL \in (IF HAS_DOWNLOAD_SUMMARY THEN {"level1b", "level2"} ELSE {"level1b"})
    /\ DOMAIN_TYPE \in {"conus", "full_disk", "mesoscale"}
    /\ channels_to_process \in SeqsUpTo(Codes, MaxChannels)
    /\ DOWNLOAD_RESULTS_empty \in (IF channels_to_process = <<>> THEN BOOLEAN ELSE {FALSE})
    /\ pc = "route"
    /\ processing_path = "none"
    /\ load_i = 0
    /\ GOES_PROJECTION_AUTHORITY = "None"
    /\ authority_inits = 0
    /\ raw_data_store = <<>>
    /\ load_log = <<>>
    /\ tasks = <<>>
    /\ enable_parallel = "unread"
    /\ seq_k = 0
    /\ status = [c \in Codes |-> "none"]
    /\ collected = {}
    /\ worker_calls = [c \in Codes |-> 0]
    /\ luts = {}
    /\ channels = [c \in {} |-> 0]
    /\ metadata_order = <<>>
    /\ coordinate_data = "None"
    /\ solar_angles = "None"
    /\ store_calls = [c \in Codes |-> 0]
    /\ successful = 0
    /\ failed = 0
    /\ enable_solar = "unread"
    /\ solar_calls = 0
    /\ coord_len = 0
    /\ scan_time = "unread"
    /\ rgb_runs = 0
    /\ AngleIdle
    /\ RgbIdle
    /\ SceneIdle
    /\ ConfIdle
    /\ LutIdle
    /\ PureIdle

\* cell 4 has not run: the state in which a routine is examined on its own
CellIdle ==
    /\ HAS_DOWNLOAD_SUMMARY = FALSE
    /\ DATA_LEVEL = "level1b"
    /\ DOMAIN_TYPE = "conus"
    /\ channels_to_process = <<>>
    /\ DOWNLOAD_RESULTS_empty = FALSE
    /\ pc = "route"
    /\ processing_path = "none"
    /\ load_i = 0
    /\ GOES_PROJECTION_AUTHORITY = "None"
    /\ authority_inits = 0
    /\ raw_data_store = <<>>
    /\ load_log = <<>>
    /\ tasks = <<>>
    /\ enable_parallel = "unread"
    /\ seq_k = 0
    /\ status = [c \in Codes |-> "none"]
    /\ collected = {}
    /\ worker_calls = [c \in Codes |-> 0]
    /\ luts = {}
    /\ channels = [c \in {} |-> 0]
    /\ metadata_order = <<>>
    /\ coordinate_data = "None"
    /\ solar_angles = "None"
    /\ store_calls = [c \in Codes |-> 0]
    /\ successful = 0
    /\ failed = 0
    /\ enable_solar = "unread"
    /\ solar_calls = 0
    /\ coord_len = 0
    /\ scan_time = "unread"
    /\ rgb_runs = 0

\* which loader the selected path calls
UsesLevel2Loader == processing_path = "level2_aware" /\ DATA_LEVEL = "level2"

\* lines 1902, 1919-1925: select the path and enter its processing function
Route ==
    /\ pc = "route"
    /\ processing_path' = determine_processing_path(HAS_DOWNLOAD_SUMMARY, DATA_LEVEL, DOMAIN_TYPE)
    /\ pc' = "load"
    /\ load_i' = IF processing_path' = "level2_aware" /\ DATA_LEVEL = "level2" THEN 0 ELSE 1
    /\ UNCHANGED <<configVars, GOES_PROJECTION_AUTHORITY, authority_inits,
                   raw_data_store, load_log, tasks, enable_parallel, seq_k, poolVars,
                   luts, storeVars, solarVars, rgb_runs, sideVars>>

\* ------------------------------------------------------------------------
\* The projection authority accessor
\* ------------------------------------------------------------------------
\* variant: the global is handed out as it is
get_projection_authority_unchecked == GOES_PROJECTION_AUTHORITY

\* lines 193-201: what a call returns in the current state; "ValueError" = the
\* call raises
get_projection_authority ==
    IF GOES_PROJECTION_AUTHORITY = "None" THEN "ValueError"
    ELSE GOES_PROJECTION_AUTHORITY

\* ------------------------------------------------------------------------
\* Loaders
\* ------------------------------------------------------------------------
\* the channel that gets 'coordinate_data' in load_level1b_data (line 730)
Level1bCarriesCoords(channel) ==
    \/ channel = "C02"
    \/ (channel = channels_to_process[1] /\ "C02" \notin Range(channels_to_process))

\* variant: the authority is rebuilt from every file that opens
load_level1b_data_rebuilds_authority(outcome, bad) ==
    /\ pc = "load"
    /\ ~UsesLevel2Loader
    /\ load_i <= Len(channels_to_process)
    /\ LET channel == channels_to_process[load_i]
           init    == outcome # "fail_early"
           rec     == RawRecord(channel, "level1b", bad,
                                outcome = "ok" /\ Level1bCarriesCoords(channel))
       IN  /\ GOES_PROJECTION_AUTHORITY' = IF init THEN channel ELSE GOES_PROJECTION_AUTHORITY
           /\ authority_inits' = IF init THEN authority_inits + 1 ELSE authority_inits
           /\ authority_scene' = IF init THEN scene ELSE authority_scene
           /\ raw_data_store' = IF outcome \in {"partial", "ok"}
                                THEN Put(raw_data_store, rec) ELSE raw_data_store
    /\ load_log' = Append(load_log, outcome)
    /\ load_i' = load_i + 1
    /\ UNCHANGED <<configVars, pc, processing_path, tasks, enable_parallel, seq_k,
                   poolVars, luts, storeVars, solarVars, rgb_runs, angleVars, rgbVars, confVars,
                   lutVars, pureVars,
                   scene>>

\* one iteration of the loop of load_level1b_data.  outcome:
\*   "fail_early" the file does not open, or GOESProjectionAuthority raises
\*   "fail_late"  the read fails before raw_data_store[channel] is assigned
\*   "partial"    the read fails after raw_data_store[channel] was assigned
\*   "ok"         the record is complete
load_level1b_data(outcome, bad) ==
    /\ pc = "load"
    /\ ~UsesLevel2Loader
    /\ load_i <= Len(channels_to_process)
    /\ LET channel == channels_to_process[load_i]
           init    == outcome # "fail_early" /\ GOES_PROJECTION_AUTHORITY = "None"
           rec     == RawRecord(channel, "level1b", bad,
                                outcome = "ok" /\ Level1bCarriesCoords(channel))
       IN  /\ GOES_PROJECTION_AUTHORITY' = IF init THEN channel ELSE GOES_PROJECTION_AUTHORITY
           /\ authority_inits' = IF init THEN authority_inits + 1 ELSE authority_inits
           /\ authority_scene' = IF init THEN scene ELSE authority_scene
           /\ raw_data_store' = IF outcome \in {"partial", "ok"}
                                THEN Put(raw_data_store, rec) ELSE raw_data_store
    /\ load_log' = Append(load_log, outcome)
    /\ load_i' = load_i + 1
    /\ UNCHANGED <<configVars, pc, processing_path, tasks, enable_parallel, seq_k,
                   poolVars, luts, storeVars, solarVars, rgb_runs, angleVars, rgbVars, confVars,
                   lutVars, pureVars,
                   scene>>

\* lines 630-635 of load_level2_data: pick the file and open it
load_level2_open(opens) ==
    /\ pc = "load"
    /\ UsesLevel2Loader
    /\ load_i = 0
    /\ IF DOWNLOAD_RESULTS_empty
       THEN /\ pc' = "raised"          \* list(DOWNLOAD_RESULTS.keys())[0]
            /\ load_i' = load_i
       ELSE /\ pc' = pc
            /\ load_i' = IF opens THEN 1 ELSE Len(channels_to_process) + 1
    /\ UNCHANGED <<configVars, processing_path, GOES_PROJECTION_AUTHORITY,
                   authority_inits, raw_data_store, load_log, tasks, enable_parallel,
                   seq_k, poolVars, luts, storeVars, solarVars, rgb_runs, sideVars>>

\* one iteration of the loop of load_level2_data.  outcome:
\*   "missing"   CMI_<channel> is not in the file: continue
\*   "exception" anything raises: the function returns {}
\*   "ok"        the record is stored
load_level2_data(outcome, bad) ==
    /\ pc = "load"
    /\ UsesLevel2Loader
    /\ load_i >= 1
    /\ load_i <= Len(channels_to_process)
    /\ LET channel == channels_to_process[load_i]
           rec     == RawRecord(channel, "level2", bad, channel = channels_to_process[1])
       IN  raw_data_store' = CASE outcome = "ok" -> Put(raw_data_store, rec)
                               [] outcome = "exception" -> <<>>
                               [] OTHER -> raw_data_store
    /\ load_log' = Append(load_log, outcome)
    /\ load_i' = IF outcome = "exception" THEN Len(channels_to_process) + 1 ELSE load_i + 1
    /\ UNCHANGED <<configVars, pc, processing_path, GOES_PROJECTION_AUTHORITY,
                   authority_inits, tasks, enable_parallel, seq_k, poolVars, luts,
                   storeVars, solarVars, rgb_runs, sideVars>>

\* ------------------------------------------------------------------------
\* Task construction
\* ------------------------------------------------------------------------
NativeCodes == {"C02", "C04", "C09", "C16"}
Upscale2xCodes == {"C01", "C03", "C05"}
Upscale4xCodes == {"C06", "C07", "C08", "C10", "C11", "C12", "C13", "C14", "C15"}

get_standard_channel_requirements(c) ==
    IF c \in NativeCodes THEN "native"
    ELSE IF c \in Upscale2xCodes THEN "upscale_2x"
    ELSE IF c \in Upscale4xCodes THEN "upscale_4x"
    ELSE "native"

\* variant: the table of the other domains is used for every domain
get_level2_channel_requirements_one_table(domain_type, c) ==
    get_standard_channel_requirements(c)

get_level2_channel_requirements(domain_type, c) ==
    IF domain_type = "full_disk" THEN "native"
    ELSE get_standard_channel_requirements(c)

ShapeFor(requirement, native_shape) ==
    IF requirement = "upscale_2x" THEN <<native_shape[1] * 2, native_shape[2] * 2>>
    ELSE IF requirement = "upscale_4x" THEN <<native_shape[1] * 4, native_shape[2] * 4>>
    ELSE native_shape

get_standard_target_shape(c, native_shape) ==
    ShapeFor(get_standard_channel_requirements(c), native_shape)

get_target_shape(c, native_shape, domain_type) ==
    ShapeFor(get_level2_channel_requirements(domain_type, c), native_shape)

\* the target shape the selected path gives a channel
TargetShape(c) ==
    IF processing_path = "level2_aware" THEN get_target_shape(c, NativeShape(c), DOMAIN_TYPE)
    ELSE IF processing_path = "enhanced_full_disk" THEN NativeShape(c)
    ELSE get_standard_target_shape(c, NativeShape(c))

\* variant: one task per entry of the channel list that has a loaded record
BuildTaskList_per_list_entry(store) ==
    LET loaded == SelectSeq(channels_to_process, LAMBDA c : HasKey(store, c))
    IN  [k \in 1..Len(loaded) |->
            [channel_code |-> loaded[k], target_shape |-> TargetShape(loaded[k])]]

\* one task per key of raw_data_store, in dict order
BuildTaskList(store) ==
    [k \in 1..Len(store) |->
        [channel_code |-> store[k].code, target_shape |-> TargetShape(store[k].code)]]

TaskCodes == {tasks[k].channel_code : k \in 1..Len(tasks)}

\* variant: the pool is used whenever parallel processing is enabled
BuildTasks_pools_single_task(par) ==
    /\ pc = "load"
    /\ load_i > Len(channels_to_process)
    /\ IF raw_data_store = <<>> /\ processing_path # "level2_aware"
       THEN /\ pc' = "returned"
            /\ UNCHANGED <<tasks, enable_parallel, seq_k, status>>
       ELSE /\ tasks' = BuildTaskList(raw_data_store)
            /\ enable_parallel' = par
            /\ IF par = "on" /\ Len(tasks') > 0
               THEN /\ pc' = "pool"
                    /\ status' = [c \in Codes |->
                                    IF HasKey(raw_data_store, c) THEN "pending" ELSE "none"]
                    /\ seq_k' = seq_k
               ELSE /\ pc' = IF Len(tasks') = 0 THEN "solar" ELSE "seq"
                    /\ seq_k' = 1
                    /\ status' = status
    /\ UNCHANGED <<configVars, processing_path, loadVars, collected, worker_calls, luts,
                   storeVars, solarVars, rgb_runs, sideVars>>

\* lines 1616-1658 (and 1197-1248, 1769-1813): the early return when nothing
\* loaded, the task list, and the choice between the pool and the loop
BuildTasks(par) ==
    /\ pc = "load"
    /\ load_i > Len(channels_to_process)
    /\ IF raw_data_store = <<>> /\ processing_path # "level2_aware"
       THEN /\ pc' = "returned"
            /\ UNCHANGED <<tasks, enable_parallel, seq_k, status>>
       ELSE /\ tasks' = BuildTaskList(raw_data_store)
            /\ enable_parallel' = par
            /\ IF par = "on" /\ Len(tasks') > 1
               THEN /\ pc' = "pool"
                    /\ status' = [c \in Codes |->
                                    IF HasKey(raw_data_store, c) THEN "pending" ELSE "none"]
                    /\ seq_k' = seq_k
               ELSE /\ pc' = IF Len(tasks') = 0 THEN "solar" ELSE "seq"
                    /\ seq_k' = 1
                    /\ status' = status
    /\ UNCHANGED <<configVars, processing_path, loadVars, collected, worker_calls, luts,
                   storeVars, solarVars, rgb_runs, sideVars>>

\* ------------------------------------------------------------------------
\* Workers
\* ------------------------------------------------------------------------
Resampled(task) == NativeShape(task.channel_code) # task.target_shape

ResultOf(task, rec, ops, time_coverage_start) ==
    [success |-> TRUE,
     channel_code |-> task.channel_code,
     calibrated_data |-> [ops |-> ops, shape |-> task.target_shape],
     enhanced_data |-> [kind |-> IF ChannelTypeOf(task.channel_code) = "ir"
                                 THEN "rgb" ELSE "gray",
                        shape |-> task.target_shape,
                        ops |-> ops \o <<"enhance">>],
     channel_type |-> ChannelTypeOf(task.channel_code),
     metadata |-> [shape |-> task.target_shape,
                   time_coverage_start |-> time_coverage_start],
     coordinate_data |-> rec.coord]

\* variant: the radiance is calibrated first and the calibrated array upscaled
standard_conus_worker_calibrates_first(task, rec) ==
    IF rec.bad
    THEN [success |-> FALSE, channel_code |-> task.channel_code]
    ELSE ResultOf(task, rec,
                  <<"calibrate">> \o (IF Resampled(task) THEN <<"resample">> ELSE <<>>),
                  task.channel_code)

\* the successful result of standard_conus_worker: the radiance is upscaled
\* first (lines 1378-1383), then calibrated, then enhanced
standard_conus_worker(task, rec) ==
    IF rec.bad
    THEN [success |-> FALSE, channel_code |-> task.channel_code]
    ELSE ResultOf(task, rec,
                  (IF Resampled(task) THEN <<"resample">> ELSE <<>>) \o <<"calibrate">>,
                  task.channel_code)

\* the successful result of level2_aware_worker: level 2 data is taken as
\* calibrated, level 1b data is calibrated; then upscaled (lines 840-847),
\* then enhanced
level2_aware_worker(task, rec) ==
    IF rec.bad
    THEN [success |-> FALSE, channel_code |-> task.channel_code]
    ELSE ResultOf(task, rec,
                  (IF rec.data_level = "level2" THEN <<>> ELSE <<"calibrate">>)
                  \o (IF Resampled(task) THEN <<"resample">> ELSE <<>>),
                  IF rec.data_level = "level2" THEN "L2" ELSE task.channel_code)

Worker(task) ==
    IF processing_path = "level2_aware"
    THEN level2_aware_worker(task, Get(raw_data_store, task.channel_code))
    ELSE standard_conus_worker(task, Get(raw_data_store, task.channel_code))

\* variant: the tables of the whole channel family are cached at once
LutsAfter_whole_family(task, result) ==
    IF result.success /\ ChannelTypeOf(task.channel_code) = "ir"
    THEN luts \cup {c \in Codes : ChannelTypeOf(c) = "ir"}
    ELSE luts

\* enhance_ir_channel builds the combined table of its channel code in the
\* process-wide ULTRA_FAST_IR on first use (ENABLE_ULTRA_FAST_IR_LUTS on, its
\* default; a worker that raised before the enhancement builds nothing)
LutsAfter(task, result) ==
    IF result.success /\ ChannelTypeOf(task.channel_code) = "ir"
    THEN luts \cup {task.channel_code}
    ELSE luts

\* ------------------------------------------------------------------------
\* The data store
\* ------------------------------------------------------------------------
StoredEntry(result) ==
    [calibrated |-> result.calibrated_data,
     enhanced |-> result.enhanced_data,
     channel_type |-> result.channel_type,
     shape |-> result.calibrated_data.shape,
     metadata |-> result.metadata]

\* variant: the channel dict is rebuilt on every call
store_channel_rebuilds(result) ==
    /\ channels' = (result.channel_code :> StoredEntry(result))
    /\ metadata_order' = IF result.channel_code \in Range(metadata_order)
                         THEN metadata_order
                         ELSE Append(metadata_order, result.channel_code)
    /\ store_calls' = [store_calls EXCEPT ![result.channel_code] = @ + 1]

\* ChannelDataStore.store_channel (process_level2_aware uses a store of the
\* same interface that is defined in another cell)
store_channel(result) ==
    /\ channels' = (result.channel_code :> StoredEntry(result)) @@ channels
    /\ metadata_order' = IF result.channel_code \in Range(metadata_order)
                         THEN metadata_order
                         ELSE Append(metadata_order, result.channel_code)
    /\ store_calls' = [store_calls EXCEPT ![result.channel_code] = @ + 1]

\* variant: a failure result is dropped without being counted
MergeResult_failure_uncounted(result) ==
    IF result.success
    THEN /\ store_channel(result)
         /\ coordinate_data' = IF result.coordinate_data THEN result.channel_code
                               ELSE coordinate_data
         /\ successful' = successful + 1
         /\ failed' = failed
    ELSE UNCHANGED <<channels, metadata_order, store_calls, coordinate_data,
                     successful, failed>>

\* variant: every consumed result is counted as a success
MergeResult_counts_results(result) ==
    IF result.success
    THEN /\ store_channel(result)
         /\ coordinate_data' = IF result.coordinate_data THEN result.channel_code
                               ELSE coordinate_data
         /\ successful' = successful + 1
         /\ failed' = failed
    ELSE /\ successful' = successful + 1
         /\ UNCHANGED <<channels, metadata_order, store_calls, coordinate_data, failed>>

\* the body of the result loop: store a success, count a failure
MergeResult(result) ==
    IF result.success
    THEN /\ store_channel(result)
         /\ coordinate_data' = IF result.coordinate_data THEN result.channel_code
                               ELSE coordinate_data
         /\ successful' = successful + 1
         /\ failed' = failed
    ELSE /\ failed' = failed + 1
         /\ UNCHANGED <<channels, metadata_order, store_calls, coordinate_data, successful>>

TaskOf(c) == tasks[CHOOSE k \in 1..Len(tasks) : tasks[k].channel_code = c]

\* ------------------------------------------------------------------------
\* The pooled branch (ThreadPoolExecutor + as_completed)
\* ------------------------------------------------------------------------
Running == {c \in Codes : status[c] = "running"}

\* the pool's work queue is first-in first-out
FirstPending(c) ==
    \E k \in 1..Len(tasks) :
        /\ tasks[k].channel_code = c
        /\ status[c] = "pending"
        /\ \A j \in 1..(k - 1) : status[tasks[j].channel_code] # "pending"

\* a pool thread takes the next task from the queue
WorkerStart(c) ==
    /\ pc = "pool"
    /\ FirstPending(c)
    /\ Cardinality(Running) < MAX_PARALLEL_WORKERS
    /\ status' = [status EXCEPT ![c] = "running"]
    /\ UNCHANGED <<configVars, pc, processing_path, loadVars, tasks, enable_parallel,
                   seq_k, collected, worker_calls, luts, storeVars, solarVars, rgb_runs,
                   sideVars>>

\* variant: a worker whose task fails never returns, its future stays running
WorkerRun_hangs_on_failure(c) ==
    /\ pc = "pool"
    /\ status[c] = "running"
    /\ LET result == Worker(TaskOf(c))
       IN  /\ result.success
           /\ status' = [status EXCEPT ![c] = "ok"]
           /\ luts' = LutsAfter(TaskOf(c), result)
    /\ worker_calls' = [worker_calls EXCEPT ![c] = @ + 1]
    /\ UNCHANGED <<configVars, pc, processing_path, loadVars, tasks, enable_parallel,
                   seq_k, collected, storeVars, solarVars, rgb_runs, sideVars>>

\* variant: the worker stores its result itself, from its pool thread
WorkerRun_stores_own_result(c) ==
    /\ pc = "pool"
    /\ status[c] = "running"
    /\ LET result == Worker(TaskOf(c))
       IN  /\ status' = [status EXCEPT ![c] = IF result.success THEN "ok" ELSE "failed"]
           /\ luts' = LutsAfter(TaskOf(c), result)
           /\ MergeResult(result)
    /\ worker_calls' = [worker_calls EXCEPT ![c] = @ + 1]
    /\ UNCHANGED <<configVars, pc, processing_path, loadVars, tasks, enable_parallel,
                   seq_k, collected, solarVars, rgb_runs, sideVars>>

\* the worker function runs to its return statement in its pool thread
WorkerRun(c) ==
    /\ pc = "pool"
    /\ status[c] = "running"
    /\ LET result == Worker(TaskOf(c))
       IN  /\ status' = [status EXCEPT ![c] = IF result.success THEN "ok" ELSE "failed"]
           /\ luts' = LutsAfter(TaskOf(c), result)
    /\ worker_calls' = [worker_calls EXCEPT ![c] = @ + 1]
    /\ UNCHANGED <<configVars, pc, processing_path, loadVars, tasks, enable_parallel,
                   seq_k, collected, storeVars, solarVars, rgb_runs, sideVars>>

\* variant: the result loop is left after the first future
Collect_leaves_after_first(c) ==
    /\ pc = "pool"
    /\ status[c] \in {"ok", "failed"}
    /\ c \notin collected
    /\ MergeResult(Worker(TaskOf(c)))
    /\ collected' = collected \cup {c}
    /\ pc' = "solar"
    /\ UNCHANGED <<configVars, processing_path, loadVars, tasks, enable_parallel,
                   seq_k, status, worker_calls, luts, solarVars, rgb_runs, sideVars>>

\* one iteration of 'for future in as_completed(...)' in the orchestrating
\* thread; the with-block is left after the last future.  The worker catches
\* every Exception itself, so future.result() returns a tagged result.
Collect(c) ==
    /\ pc = "pool"
    /\ status[c] \in {"ok", "failed"}
    /\ c \notin collected
    /\ MergeResult(Worker(TaskOf(c)))
    /\ collected' = collected \cup {c}
    /\ pc' = IF collected' = TaskCodes THEN "solar" ELSE pc
    /\ UNCHANGED <<configVars, processing_path, loadVars, tasks, enable_parallel,
                   seq_k, status, worker_calls, luts, solarVars, rgb_runs, sideVars>>

\* ------------------------------------------------------------------------
\* The sequential branch
\* ------------------------------------------------------------------------
SequentialStep ==
    /\ pc = "seq"
    /\ seq_k <= Len(tasks)
    /\ LET result == Worker(tasks[seq_k])
       IN  /\ MergeResult(result)
           /\ luts' = LutsAfter(tasks[seq_k], result)
    /\ worker_calls' = [worker_calls EXCEPT ![tasks[seq_k].channel_code] = @ + 1]
    /\ seq_k' = seq_k + 1
    /\ pc' = IF seq_k' > Len(tasks) THEN "solar" ELSE pc
    /\ UNCHANGED <<configVars, processing_path, loadVars, tasks, enable_parallel,
                   status, collected, solarVars, rgb_runs, sideVars>>

\* ------------------------------------------------------------------------
\* Solar angles
\* ------------------------------------------------------------------------
\* fail: where the try block of the routine raises
\*   "none"        nowhere
\*   "before_time" before scan_time is bound (import, strptime)
\*   "after_time"  after scan_time is bound (projection, transformation,
\*                 reductions over the coordinate grids)
\* n: length of the coordinate arrays; an empty grid cannot be reduced, so
\* the try block raises when n = 0
SolarInputs == {<<n, f>> \in {0, MaxCoordLen} \X {"none", "before_time", "after_time"} :
                    n = 0 => f # "none"}

\* compute_solar_angles_simple; "raise" = the exception leaves the function
compute_solar_angles_simple(n, fail) ==
    IF fail = "none" THEN "computed"
    ELSE IF fail = "after_time"
         THEN (IF n = 0 THEN "raise" ELSE "pattern")   \* np.min(sza) at line 1584
         ELSE "uniform"

\* variant: a failure of the try block returns (None, None) at once
compute_solar_angles_enhanced_no_fallback(n, fail) ==
    IF fail = "none" THEN "computed" ELSE "None"

\* compute_solar_angles_enhanced; "None" = (None, None)
compute_solar_angles_enhanced(n, fail) ==
    IF fail = "none" THEN "computed"
    ELSE IF fail = "after_time"
         THEN (IF n = 0 THEN "None" ELSE "pattern")    \* np.nanmin(sza) at line 1155
         ELSE "uniform"

SolarRoutine(n, fail) ==
    IF processing_path = "standard_conus" THEN compute_solar_angles_simple(n, fail)
    ELSE compute_solar_angles_enhanced(n, fail)

\* the scan time handed to the solar routine
ScanTimeOf(order) ==
    IF order = <<>> THEN "None" ELSE channels[order[1]].metadata.time_coverage_start

\* lines 1720-1740 (1310-1330, 1875-1895): the solar step and the return
SolarStep(en, n, fail) ==
    /\ pc = "solar"
    /\ <<n, fail>> \in SolarInputs
    /\ enable_solar' = en
    /\ IF en = "on" /\ coordinate_data # "None"
       THEN LET r == SolarRoutine(n, fail)
            IN  /\ scan_time' = ScanTimeOf(metadata_order)
                /\ coord_len' = n
                /\ solar_calls' = solar_calls + 1
                /\ solar_angles' = IF r \in {"raise", "None"} THEN solar_angles ELSE r
                /\ pc' = IF r = "raise" THEN "raised" ELSE "returned"
       ELSE /\ pc' = "returned"
            /\ UNCHANGED <<scan_time, coord_len, solar_calls, solar_angles>>
    /\ UNCHANGED <<configVars, processing_path, loadVars, tasks, enable_parallel,
                   seq_k, poolVars, luts, storeVars, rgb_runs, sideVars>>

\* ------------------------------------------------------------------------
\* The values of a solar zenith grid
\* ------------------------------------------------------------------------
\* Angles are integers in units of 1/12 degree, cosines in units of 1/2, the
\* time of the scan in minutes of the UTC day.  A value is a number or np.nan.
Deg(d) == 12 * d

Abs(v) == IF v < 0 THEN 0 - v ELSE v

Max(a, b) == IF a >= b THEN a ELSE b

\* np.clip of a defined value
np_clip(v, lo, hi) == IF v < lo THEN lo ELSE IF v > hi THEN hi ELSE v

\* np.degrees(np.arccos(c)): not a number outside [-1, 1]
degrees_arccos(c) ==
    CASE c = 0 - 2 -> Num(Deg(180))
      [] c = 0 - 1 -> Num(Deg(120))
      [] c = 0 -> Num(Deg(90))
      [] c = 1 -> Num(Deg(60))
      [] c = 2 -> Num(Deg(0))
      [] OTHER -> nan

\* lines 1073-1076 and 1527-1531: the zenith angle of a grid point from the
\* cosine the geometry gave (nan: the point has no finite coordinates)
sza_of_cosine(c) == IF c.nan THEN nan ELSE degrees_arccos(np_clip(c.v, 0 - 2, 2))

\* scipy.ndimage.zoom(order=1): a full-resolution pixel is the value t/2 of
\* the way from grid point a to grid point b
zoom(a, b, t) ==
    IF a.nan \/ b.nan THEN nan ELSE Num((a.v * (2 - t) + b.v * t) \div 2)

\* lines 1095-1117: missing grid points are filled with 90 degrees before the
\* upsampling, and the pixels outside the valid mask are blanked after it
normal_path_enhanced(in) ==
    LET fill(x) == IF x.nan THEN Num(Deg(90)) ELSE x
    IN  IF in.valid
        THEN zoom(fill(sza_of_cosine(in.cos_a)), fill(sza_of_cosine(in.cos_b)), in.t)
        ELSE nan

\* lines 1546-1558: the grid is upsampled as it is
normal_path_simple(in) == zoom(sza_of_cosine(in.cos_a), sza_of_cosine(in.cos_b), in.t)

\* 90 - 15 * abs(utc_hour - 12), utc_hour = hour + minute / 60
base_sza_of_minute(m) == Deg(90) - 3 * Abs(m - 720)

\* variant: the pattern is returned as computed, without floor and clip
fallback_pattern_enhanced_unbounded(in) ==
    IF in.valid
    THEN Num(base_sza_of_minute(in.minute)
             + (IF in.width = 1 THEN 0 - Deg(15)
                ELSE ((2 * in.column - (in.width - 1)) * Deg(15)) \div (in.width - 1)))
    ELSE nan

\* lines 1136-1155: x_indices is np.linspace(0, 1, width)
fallback_pattern_enhanced(in) ==
    LET base_sza      == Max(base_sza_of_minute(in.minute), Deg(20))
        lon_variation == IF in.width = 1 THEN 0 - Deg(15)
                         ELSE ((2 * in.column - (in.width - 1)) * Deg(15)) \div (in.width - 1)
    IN  IF in.valid THEN Num(np_clip(base_sza + lon_variation, Deg(10), Deg(120))) ELSE nan

\* lines 1565-1584: x_indices is np.arange(width) / width
fallback_pattern_simple(in) ==
    LET base_sza      == Max(base_sza_of_minute(in.minute), Deg(30))
        lon_variation == ((2 * in.column - in.width) * Deg(10)) \div in.width
    IN  Num(np_clip(base_sza + lon_variation, Deg(20), Deg(120)))

\* lines 1157-1160 and 1586-1589
fallback_uniform(in) ==
    IF in.routine = "enhanced" /\ ~in.valid THEN nan ELSE Num(Deg(60))

\* the cosine of a grid point: missing, or a number that rounding may have
\* pushed outside [-1, 1]
Cosines == {nan} \cup {Num(c) : c \in (0 - 3)..3}

\* a pixel of the normal path: its two neighbouring grid points and its place
\* between them
NormalInputs ==
    [path : {"normal"}, routine : {"simple", "enhanced"}, valid : BOOLEAN,
     cos_a : Cosines, cos_b : Cosines, t : 0..2, minute : {0}, width : {1},
     column : {0}]

\* a pixel of a fallback grid: the time of the scan, the width of the grid and
\* the pixel's column
FallbackInputs ==
    {in \in [path : {"pattern", "uniform"}, routine : {"simple", "enhanced"},
             valid : BOOLEAN, cos_a : {nan}, cos_b : {nan}, t : {0},
             minute : 0..1439, width : 1..MaxGridWidth,
             column : 0..(MaxGridWidth - 1)] : in.column < in.width}

AngleInit ==
    /\ CellIdle
    /\ RgbIdle
    /\ SceneIdle
    /\ ConfIdle
    /\ LutIdle
    /\ PureIdle
    /\ sza_input \in NormalInputs \cup FallbackInputs
    /\ sza = <<>>

\* the value the routine returns for the pixel on its normal path
solar_normal_path ==
    /\ sza = <<>>
    /\ sza_input.path = "normal"
    /\ sza' = <<IF sza_input.routine = "enhanced" THEN normal_path_enhanced(sza_input)
                ELSE normal_path_simple(sza_input)>>
    /\ UNCHANGED <<cellVars, rgbVars, sceneVars, confVars, lutVars, pureVars, sza_input>>

\* the value of the time-based pattern (scan_time was bound)
solar_fallback_pattern ==
    /\ sza = <<>>
    /\ sza_input.path = "pattern"
    /\ sza' = <<IF sza_input.routine = "enhanced" THEN fallback_pattern_enhanced(sza_input)
                ELSE fallback_pattern_simple(sza_input)>>
    /\ UNCHANGED <<cellVars, rgbVars, sceneVars, confVars, lutVars, pureVars, sza_input>>

\* the value of the uniform default (scan_time was not bound)
solar_fallback_uniform ==
    /\ sza = <<>>
    /\ sza_input.path = "uniform"
    /\ sza' = <<fallback_uniform(sza_input)>>
    /\ UNCHANGED <<cellVars, rgbVars, sceneVars, confVars, lutVars, pureVars, sza_input>>

AngleNext == solar_normal_path \/ solar_fallback_pattern \/ solar_fallback_uniform

AngleSpec == AngleInit /\ [][AngleNext]_vars

\* ------------------------------------------------------------------------
\* Hand-over to the RGB cell
\* ------------------------------------------------------------------------
\* lines 1939-1942: CHANNELS, METADATA, COORDINATE_DATA, SOLAR_ANGLES
ExportVariables ==
    /\ pc = "returned"
    /\ pc' = "exported"
    /\ UNCHANGED <<configVars, processing_path, loadVars, tasks, enable_parallel,
                   seq_k, poolVars, luts, storeVars, solarVars, rgb_runs, sideVars>>

\* variant: the RGB pass does not wait for the solar step
generate_all_rgb_products_before_solar ==
    /\ pc \in {"solar", "exported"}
    /\ rgb_runs' = rgb_runs + 1
    /\ pc' = "rgb"
    /\ UNCHANGED <<configVars, processing_path, loadVars, tasks, enable_parallel,
                   seq_k, poolVars, luts, storeVars, solarVars, sideVars>>

\* line 3338: RGB_DATA_STORE = generate_all_rgb_products()
generate_all_rgb_products ==
    /\ pc = "exported"
    /\ rgb_runs' = rgb_runs + 1
    /\ pc' = "rgb"
    /\ UNCHANGED <<configVars, processing_path, loadVars, tasks, enable_parallel,
                   seq_k, poolVars, luts, storeVars, solarVars, sideVars>>

\* ------------------------------------------------------------------------
\* Cell 4 executed again for another scene
\* ------------------------------------------------------------------------
\* variant: the prologue leaves an existing authority in place
RerunCell_keeps_authority ==
    /\ pc \in {"exported", "rgb", "raised"}
    /\ scene < MaxScenes
    /\ scene' = scene + 1
    /\ HAS_DOWNLOAD_SUMMARY' \in BOOLEAN
    /\ DATA_LEVEL' \in (IF HAS_DOWNLOAD_SUMMARY' THEN {"level1b", "level2"} ELSE {"level1b"})
    /\ DOMAIN_TYPE' \in {"conus", "full_disk", "mesoscale"}
    /\ channels_to_process' \in SeqsUpTo(Codes, MaxChannels)
    /\ DOWNLOAD_RESULTS_empty' \in (IF channels_to_process' = <<>> THEN BOOLEAN ELSE {FALSE})
    /\ pc' = "route"
    /\ processing_path' = "none"
    /\ load_i' = 0
    /\ UNCHANGED <<GOES_PROJECTION_AUTHORITY, authority_scene>>
    /\ authority_inits' = 0
    /\ raw_data_store' = <<>>
    /\ load_log' = <<>>
    /\ tasks' = <<>>
    /\ enable_parallel' = "unread"
    /\ seq_k' = 0
    /\ status' = [c \in Codes |-> "none"]
    /\ collected' = {}
    /\ worker_calls' = [c \in Codes |-> 0]
    /\ luts' = {}
    /\ channels' = [c \in {} |-> 0]
    /\ metadata_order' = <<>>
    /\ coordinate_data' = "None"
    /\ solar_angles' = "None"
    /\ store_calls' = [c \in Codes |-> 0]
    /\ successful' = 0
    /\ failed' = 0
    /\ enable_solar' = "unread"
    /\ solar_calls' = 0
    /\ coord_len' = 0
    /\ scan_time' = "unread"
    /\ rgb_runs' = 0
    /\ UNCHANGED <<angleVars, rgbVars, confVars, lutVars, pureVars>>

\* cell 4 is executed from its first line for the next scene: the prologue
\* reads the new configuration (lines 27-30) and the module-level statements
\* rebind the authority to None (line 191), the table processor (line 340) and,
\* in the processing function, the stores
RerunCell ==
    /\ pc \in {"exported", "rgb", "raised"}
    /\ scene < MaxScenes
    /\ scene' = scene + 1
    /\ HAS_DOWNLOAD_SUMMARY' \in BOOLEAN
    /\ DATA_LEVEL' \in (IF HAS_DOWNLOAD_SUMMARY' THEN {"level1b", "level2"} ELSE {"level1b"})
    /\ DOMAIN_TYPE' \in {"conus", "full_disk", "mesoscale"}
    /\ channels_to_process' \in SeqsUpTo(Codes, MaxChannels)
    /\ DOWNLOAD_RESULTS_empty' \in (IF channels_to_process' = <<>> THEN BOOLEAN ELSE {FALSE})
    /\ pc' = "route"
    /\ processing_path' = "none"
    /\ load_i' = 0
    /\ GOES_PROJECTION_AUTHORITY' = "None"
    /\ authority_scene' = 0
    /\ authority_inits' = 0
    /\ raw_data_store' = <<>>
    /\ load_log' = <<>>
    /\ tasks' = <<>>
    /\ enable_parallel' = "unread"
    /\ seq_k' = 0
    /\ status' = [c \in Codes |-> "none"]
    /\ collected' = {}
    /\ worker_calls' = [c \in Codes |-> 0]
    /\ luts' = {}
    /\ channels' = [c \in {} |-> 0]
    /\ metadata_order' = <<>>
    /\ coordinate_data' = "None"
    /\ solar_angles' = "None"
    /\ store_calls' = [c \in Codes |-> 0]
    /\ successful' = 0
    /\ failed' = 0
    /\ enable_solar' = "unread"
    /\ solar_calls' = 0
    /\ coord_len' = 0
    /\ scan_time' = "unread"
    /\ rgb_runs' = 0
    /\ UNCHANGED <<angleVars, rgbVars, confVars, lutVars, pureVars>>

\* scene after scene, each processed by the sequential loop without the
\* solar step
SceneNext ==
    \/ Route
    \/ \E o \in {"fail_early", "fail_late", "partial", "ok"}, b \in BOOLEAN :
           load_level1b_data(o, b)
    \/ \E o \in BOOLEAN : load_level2_open(o)
    \/ \E o \in {"missing", "exception", "ok"}, b \in BOOLEAN : load_level2_data(o, b)
    \/ BuildTasks("off")
    \/ SequentialStep
    \/ SolarStep("off", MaxCoordLen, "none")
    \/ ExportVariables
    \/ generate_all_rgb_products
    \/ RerunCell

SceneSpec == Init /\ [][SceneNext]_vars

\* ------------------------------------------------------------------------
\* Cell 5: RGB products
\* ------------------------------------------------------------------------
\* RGB_CATALOG (lines 2047-2161): required channels and worker name
RGB_CATALOG ==
    [geocolor |-> [channels |-> <<"C01", "C02", "C03", "C07", "C13">>,
                   worker |-> "rgb_worker_geocolor"],
     cloud_microphysics |-> [channels |-> <<"C02", "C05", "C07", "C13", "C15">>,
                             worker |-> "rgb_worker_cloud_microphysics"],
     true_color |-> [channels |-> <<"C01", "C02", "C03">>,
                     worker |-> "rgb_worker_true_color"],
     day_cloud_phase |-> [channels |-> <<"C02", "C05", "C13">>,
                          worker |-> "rgb_worker_day_cloud_phase"],
     airmass |-> [channels |-> <<"C08", "C10", "C12", "C13">>,
                  worker |-> "rgb_worker_airmass"],
     simple_water_vapor |-> [channels |-> <<"C08", "C09", "C10">>,
                             worker |-> "rgb_worker_simple_water_vapor"],
     differential_water_vapor |-> [channels |-> <<"C08", "C10">>,
                                   worker |-> "rgb_worker_differential_water_vapor"],
     dust |-> [channels |-> <<"C11", "C13", "C14", "C15">>,
               worker |-> "rgb_worker_dust"],
     ash |-> [channels |-> <<"C11", "C13", "C15">>,
              worker |-> "rgb_worker_ash"],
     fire_temperature |-> [channels |-> <<"C07", "C06", "C05">>,
                           worker |-> "rgb_worker_fire_temperature"],
     day_land_cloud_fire |-> [channels |-> <<"C06", "C03", "C02">>,
                              worker |-> "rgb_worker_day_land_cloud_fire"],
     day_snow_fog |-> [channels |-> <<"C03", "C05", "C07", "C13">>,
                       worker |-> "rgb_worker_day_snow_fog"],
     night_microphysics |-> [channels |-> <<"C07", "C13", "C15">>,
                             worker |-> "rgb_worker_night_microphysics"],
     split_window |-> [channels |-> <<"C13", "C15">>,
                       worker |-> "rgb_worker_split_window_optimized"],
     split_window_difference |-> [channels |-> <<"C13", "C15">>,
                                  worker |-> "rgb_worker_split_window_difference"],
     day_snow_fog_night_fog |-> [channels |-> <<"C03", "C05", "C07", "C13">>,
                                 worker |-> "rgb_worker_day_snow_fog_night_fog"],
     sandwich |-> [channels |-> <<"C02", "C13">>,
                   worker |-> "rgb_worker_sandwich_optimized"]]

\* list(RGB_CATALOG.keys()): the catalog's names in the order it lists them
CatalogKeys ==
    <<"geocolor", "cloud_microphysics", "true_color", "day_cloud_phase", "airmass",
      "simple_water_vapor", "differential_water_vapor", "dust", "ash",
      "fire_temperature", "day_land_cloud_fire", "day_snow_fog",
      "night_microphysics", "split_window", "split_window_difference",
      "day_snow_fog_night_fog", "sandwich">>

\* get_rgb_worker_registry (lines 2164-2184): worker name -> function
get_rgb_worker_registry ==
    [rgb_worker_geocolor |-> "rgb_worker_geocolor",
     rgb_worker_true_color |-> "rgb_worker_true_color",
     rgb_worker_day_cloud_phase |-> "rgb_worker_day_cloud_phase",
     rgb_worker_cloud_microphysics |-> "rgb_worker_cloud_microphysics",
     rgb_worker_airmass |-> "rgb_worker_airmass",
     rgb_worker_dust |-> "rgb_worker_dust",
     rgb_worker_ash |-> "rgb_worker_ash",
     rgb_worker_fire_temperature |-> "rgb_worker_fire_temperature",
     rgb_worker_night_microphysics |-> "rgb_worker_night_microphysics",
     rgb_worker_day_snow_fog |-> "rgb_worker_day_snow_fog",
     rgb_worker_split_window_difference |-> "rgb_worker_split_window_difference",
     rgb_worker_differential_water_vapor |-> "rgb_worker_differential_water_vapor",
     rgb_worker_simple_water_vapor |-> "rgb_worker_simple_water_vapor",
     rgb_worker_day_land_cloud_fire |-> "rgb_worker_day_land_cloud_fire",
     rgb_worker_split_window_optimized |-> "rgb_worker_split_window_optimized",
     rgb_worker_sandwich_optimized |-> "rgb_worker_sandwich_optimized",
     rgb_worker_day_snow_fog_night_fog |-> "rgb_worker_day_snow_fog_night_fog_core"]

\* the workers that read solar_angles_data, with the angle (degrees) each
\* takes for every pixel when it is None ("cos45": only the cosine is used)
DefaultAngle ==
    [rgb_worker_geocolor |-> "45",
     rgb_worker_true_color |-> "cos45",
     rgb_worker_cloud_microphysics |-> "60",
     rgb_worker_day_snow_fog_night_fog_core |-> "80",
     rgb_worker_sandwich_optimized |-> "80"]

\* the workers that read the global COORDINATE_DATA (lines 2359-2360)
ReadsCoordinateData == {"rgb_worker_geocolor"}

\* the list 'required' at the head of each worker function
RequiredLists ==
    [rgb_worker_geocolor |-> <<"C01", "C02", "C03", "C07", "C13">>,
     rgb_worker_true_color |-> <<"C01", "C02", "C03">>,
     rgb_worker_day_cloud_phase |-> <<"C02", "C05", "C13">>,
     rgb_worker_cloud_microphysics |-> <<"C02", "C05", "C07", "C13", "C15">>,
     rgb_worker_split_window_optimized |-> <<"C13", "C15">>,
     rgb_worker_day_snow_fog_night_fog_core |-> <<"C03", "C05", "C07", "C13">>,
     rgb_worker_sandwich_optimized |-> <<"C02", "C13">>,
     rgb_worker_airmass |-> <<"C08", "C10", "C12", "C13">>,
     rgb_worker_dust |-> <<"C11", "C13", "C14", "C15">>,
     rgb_worker_fire_temperature |-> <<"C07", "C06", "C05">>,
     rgb_worker_night_microphysics |-> <<"C07", "C13", "C15">>,
     rgb_worker_ash |-> <<"C11", "C13", "C15">>,
     rgb_worker_day_snow_fog |-> <<"C03", "C05", "C07", "C13">>,
     rgb_worker_differential_water_vapor |-> <<"C08", "C10">>,
     rgb_worker_split_window_difference |-> <<"C13", "C15">>,
     rgb_worker_simple_water_vapor |-> <<"C08", "C09", "C10">>,
     rgb_worker_day_land_cloud_fire |-> <<"C06", "C03", "C02">>]

\* variant: the sandwich worker also asks for C03
required_sandwich_asks_C03(worker_func) ==
    IF worker_func = "rgb_worker_sandwich_optimized" THEN <<"C02", "C03", "C13">>
    ELSE RequiredLists[worker_func]

\* required, inside worker_func
required(worker_func) == RequiredLists[worker_func]

\* the channels each worker function checks and reads
WorkerRequired(worker_func) == Range(required(worker_func))

\* worker_func(channels_data, solar_angles_data).  own_failure: the kernel or
\* an array operation of the worker raises; every worker catches it and
\* returns a failure result
rgb_worker(worker_func, channels_data, solar_angles_data, own_failure) ==
    IF ~(WorkerRequired(worker_func) \subseteq channels_data)
    THEN [success |-> FALSE, error |-> "Missing channels", sza |-> "unused"]
    ELSE IF worker_func \in ReadsCoordinateData /\ COORDINATE_DATA = "None"
    THEN [success |-> FALSE, error |-> "TypeError", sza |-> "unused"]
    ELSE IF own_failure
    THEN [success |-> FALSE, error |-> "Exception", sza |-> "unused"]
    ELSE [success |-> TRUE, error |-> "",
          sza |-> IF worker_func \notin DOMAIN DefaultAngle THEN "unused"
                  ELSE IF solar_angles_data # "None" THEN "grid"
                  ELSE DefaultAngle[worker_func]]

\* the channel codes and product names cell 5 is run with
RgbCodes == {"C01", "C02", "C03", "C05", "C07", "C13", "C15"}

RequestNames ==
    {"geocolor", "true_color", "cloud_microphysics", "sandwich",
     "day_snow_fog_night_fog", "split_window", "no_such_product"}

\* the prologue of cell 5 (lines 1988-1998) with the variables cell 4
\* exported: a solar grid exists only if coordinate data was captured
RgbInit ==
    /\ CellIdle
    /\ AngleIdle
    /\ SceneIdle
    /\ ConfIdle
    /\ LutIdle
    /\ PureIdle
    /\ CHANNELS \in SUBSET RgbCodes
    /\ COORDINATE_DATA \in {"None", "coords"}
    /\ SOLAR_ANGLES \in (IF COORDINATE_DATA = "None" THEN {"None"} ELSE {"None", "grid"})
    /\ RGB_PRODUCTS_TO_CREATE \in SeqsUpTo(RequestNames, MaxRequested)
    /\ rgb_pc = "filter"
    /\ possible_products = <<>>
    /\ rgb_k = 0
    /\ rgb_products = [p \in {} |-> 0]
    /\ attempts = <<>>

requested_products ==
    IF RGB_PRODUCTS_TO_CREATE # <<>> THEN RGB_PRODUCTS_TO_CREATE ELSE CatalogKeys

\* lines 3121-3147: keep the requested catalog products whose channels are
\* all available; return an empty store if there is none
rgb_filter_requested ==
    /\ rgb_pc = "filter"
    /\ possible_products' =
          SelectSeq(requested_products,
                    LAMBDA n : /\ n \in DOMAIN RGB_CATALOG
                               /\ Range(RGB_CATALOG[n].channels) \subseteq CHANNELS)
    /\ rgb_pc' = IF possible_products' = <<>> THEN "done" ELSE "create"
    /\ rgb_k' = 1
    /\ UNCHANGED <<cellVars, angleVars, sceneVars, confVars, lutVars, pureVars,
                   CHANNELS, SOLAR_ANGLES, COORDINATE_DATA,
                   RGB_PRODUCTS_TO_CREATE, rgb_products, attempts>>

\* variant: the loop is left at the first product that is not stored
rgb_create_product_stops_at_failure(own_failure) ==
    /\ rgb_pc = "create"
    /\ LET product_name == possible_products[rgb_k]
           worker_name  == RGB_CATALOG[product_name].worker
           result       == rgb_worker(get_rgb_worker_registry[worker_name], CHANNELS,
                                      SOLAR_ANGLES, own_failure)
       IN  /\ attempts' = Append(attempts, [product |-> product_name,
                                            own_failure |-> own_failure,
                                            success |-> result.success])
           /\ rgb_products' = IF result.success
                              THEN (product_name :> [sza |-> result.sza]) @@ rgb_products
                              ELSE rgb_products
           /\ rgb_pc' = IF rgb_k = Len(possible_products) \/ ~result.success
                        THEN "done" ELSE rgb_pc
    /\ rgb_k' = rgb_k + 1
    /\ UNCHANGED <<cellVars, angleVars, sceneVars, confVars, lutVars, pureVars,
                   CHANNELS, SOLAR_ANGLES, COORDINATE_DATA,
                   RGB_PRODUCTS_TO_CREATE, possible_products>>

\* lines 3184-3218: one iteration of the loop over possible_products
rgb_create_product(own_failure) ==
    /\ rgb_pc = "create"
    /\ LET product_name == possible_products[rgb_k]
           worker_name  == RGB_CATALOG[product_name].worker
       IN  IF worker_name \notin DOMAIN get_rgb_worker_registry
           THEN UNCHANGED <<attempts, rgb_products>>
           ELSE LET result == rgb_worker(get_rgb_worker_registry[worker_name], CHANNELS,
                                         SOLAR_ANGLES, own_failure)
                IN  /\ attempts' = Append(attempts, [product |-> product_name,
                                                     own_failure |-> own_failure,
                                                     success |-> result.success])
                    /\ rgb_products' = IF result.success
                                       THEN (product_name :> [sza |-> result.sza])
                                            @@ rgb_products
                                       ELSE rgb_products
    /\ rgb_k' = rgb_k + 1
    /\ rgb_pc' = IF rgb_k = Len(possible_products) THEN "done" ELSE rgb_pc
    /\ UNCHANGED <<cellVars, angleVars, sceneVars, confVars, lutVars, pureVars,
                   CHANNELS, SOLAR_ANGLES, COORDINATE_DATA,
                   RGB_PRODUCTS_TO_CREATE, possible_products>>

RgbNext ==
    \/ rgb_filter_requested
    \/ \E own_failure \in BOOLEAN : rgb_create_product(own_failure)

RgbSpec == RgbInit /\ [][RgbNext]_vars

\* ------------------------------------------------------------------------
\* The enhancement-table cache of UltraFastIRProcessor
\* ------------------------------------------------------------------------
\* the processor's dicts and construction counts as one value
LutState == [cache |-> lut_cache, builds |-> lut_builds]

\* a table is constructed and stored under its channel code; the serial
\* number tells one constructed object from the next
Constructed(st, kind, c) ==
    [cache  |-> [st.cache EXCEPT ![kind][c] =
                    <<[kind |-> kind, code |-> c, serial |-> st.builds[kind][c] + 1]>>],
     builds |-> [st.builds EXCEPT ![kind][c] = @ + 1]]

\* lines 212-242
create_temperature_enhancement_lut(st, c) ==
    IF st.cache["temperature"][c] # <<>> THEN st ELSE Constructed(st, "temperature", c)

\* lines 244-310
create_color_lut(st, c) ==
    IF st.cache["color"][c] # <<>> THEN st ELSE Constructed(st, "color", c)

\* variant: the combined table is built on every request
create_combined_temperature_to_rgb_lut_uncached(st, c) ==
    Constructed(create_color_lut(create_temperature_enhancement_lut(st, c), c),
                "combined", c)

\* lines 312-337
create_combined_temperature_to_rgb_lut(st, c) ==
    IF st.cache["combined"][c] # <<>> THEN st
    ELSE Constructed(create_color_lut(create_temperature_enhancement_lut(st, c), c),
                     "combined", c)

LutInit ==
    /\ CellIdle
    /\ AngleIdle
    /\ RgbIdle
    /\ SceneIdle
    /\ ConfIdle
    /\ PureIdle
    /\ LutIdle

\* the effect of one request on the processor, and what the caller receives
LutRequest(kind, c, st) ==
    /\ lut_requests < MaxLutRequests
    /\ lut_cache' = st.cache
    /\ lut_builds' = st.builds
    /\ lut_returned' = st.cache[kind][c]
    /\ lut_requests' = lut_requests + 1
    /\ UNCHANGED <<cellVars, angleVars, rgbVars, sceneVars, confVars, pureVars>>

lut_request_temperature(c) ==
    LutRequest("temperature", c, create_temperature_enhancement_lut(LutState, c))

lut_request_color(c) ==
    LutRequest("color", c, create_color_lut(LutState, c))

lut_request_combined(c) ==
    LutRequest("combined", c, create_combined_temperature_to_rgb_lut(LutState, c))

LutNext ==
    \/ \E c \in Codes : lut_request_temperature(c)
    \/ \E c \in Codes : lut_request_color(c)
    \/ \E c \in Codes : lut_request_combined(c)

LutSpec == LutInit /\ [][LutNext]_vars

\* ------------------------------------------------------------------------
\* The enhancement tables: temperature -> enhancement -> color
\* ------------------------------------------------------------------------
IRCodes == {"C07", "C08", "C09", "C10", "C11", "C12", "C13", "C14", "C15", "C16"}

\* the branch the table builders take for a channel code
IRFamily(c) ==
    IF c = "C07" THEN "shortwave"
    ELSE IF c \in {"C08", "C09", "C10"} THEN "water_vapor"
    ELSE IF c \in {"C11", "C12", "C13", "C14", "C15", "C16"} THEN "longwave"
    ELSE "other"

\* key temperatures in degrees Celsius: key_temps (C07) and temps
KeyTemps(family) ==
    CASE family = "shortwave" ->
           <<-83, -78, -73, -68, -63, -58, -53, -48, -43, -42, -38, -33, -28,
             -23, -18, -13, -8, -3, 2, 7, 13, 17, 22, 27, 32, 38, 42, 47,
             52, 57, 62, 67, 72, 77, 82, 87, 92, 97, 102, 107, 112, 117, 122, 127>>
      [] family = "water_vapor" ->
           <<-93, -88, -83, -78, -73, -68, -63, -58, -54, -53, -48, -43, -38, -33,
             -30, -28, -23, -18, -13, -8, -5, -3, 2, 7>>
      [] family = "longwave" ->
           <<-110, -105, -100, -95, -90, -85, -80, -75, -70, -65, -60, -59, -55,
             -50, -45, -40, -35, -30, -25, -20, -15, -10, -5, 0, 5, 6, 10, 15, 20,
             25, 30, 31, 35, 40, 45, 50, 55, 57>>

\* key colors in the order they are written: key_colors (C07) and rgb_colors
KeyColors(family) ==
    CASE family = "shortwave" ->
           <<<<122, 122, 122>>, <<101, 101, 101>>, <<79, 79, 79>>, <<58, 58, 58>>,
             <<35, 35, 35>>, <<70, 0, 0>>, <<252, 0, 0>>, <<255, 149, 0>>,
             <<201, 255, 0>>, <<172, 255, 0>>, <<0, 249, 3>>, <<0, 2, 114>>,
             <<0, 166, 206>>, <<186, 186, 186>>, <<177, 177, 177>>,
             <<167, 167, 167>>, <<156, 156, 156>>, <<145, 145, 145>>,
             <<135, 135, 135>>, <<125, 125, 125>>, <<112, 112, 112>>,
             <<103, 103, 103>>, <<91, 91, 91>>, <<80, 80, 80>>, <<69, 69, 69>>,
             <<56, 56, 56>>, <<53, 53, 53>>, <<49, 49, 49>>, <<46, 46, 46>>,
             <<44, 44, 44>>, <<40, 40, 40>>, <<37, 37, 37>>, <<34, 34, 34>>,
             <<31, 31, 31>>, <<27, 27, 27>>, <<24, 24, 24>>, <<21, 21, 21>>,
             <<17, 17, 17>>, <<14, 14, 14>>, <<11, 11, 11>>, <<8, 8, 8>>,
             <<5, 5, 5>>, <<2, 2, 2>>, <<0, 0, 0>>>>
      [] family = "water_vapor" ->
           <<<<9, 239, 227>>, <<26, 207, 170>>, <<43, 176, 114>>, <<61, 144, 57>>,
             <<77, 137, 47>>, <<100, 152, 73>>, <<122, 167, 99>>, <<145, 182, 126>>,
             <<164, 194, 148>>, <<170, 200, 156>>, <<206, 223, 198>>,
             <<243, 248, 241>>, <<224, 224, 238>>, <<169, 169, 207>>,
             <<137, 137, 190>>, <<92, 92, 166>>, <<21, 21, 105>>, <<199, 199, 25>>,
             <<255, 216, 0>>, <<255, 149, 0>>, <<255, 109, 0>>, <<255, 81, 0>>,
             <<255, 9, 0>>, <<0, 0, 0>>>>
      [] family = "longwave" ->
           <<<<255, 255, 255>>, <<255, 255, 255>>, <<255, 255, 255>>,
             <<187, 187, 187>>, <<103, 103, 103>>, <<8, 11, 11>>, <<104, 0, 0>>,
             <<223, 0, 0>>, <<255, 79, 0>>, <<255, 184, 0>>, <<219, 255, 0>>,
             <<199, 255, 0>>, <<67, 255, 0>>, <<0, 144, 50>>, <<0, 9, 120>>,
             <<0, 149, 197>>, <<199, 186, 186>>, <<182, 182, 182>>,
             <<176, 176, 176>>, <<168, 168, 168>>, <<157, 157, 157>>,
             <<146, 146, 146>>, <<136, 136, 136>>, <<125, 125, 125>>,
             <<114, 114, 114>>, <<113, 113, 113>>, <<103, 103, 103>>, <<92, 92, 92>>,
             <<80, 80, 80>>, <<69, 69, 69>>, <<58, 58, 58>>, <<55, 55, 55>>,
             <<48, 48, 48>>, <<37, 37, 37>>, <<28, 28, 28>>, <<18, 18, 18>>,
             <<9, 9, 9>>, <<5, 5, 5>>>>

\* key_colors[::-1] for C07, rgb_colors as written for the other families
ColorStops(family) ==
    LET kc == KeyColors(family)
    IN  IF family = "shortwave" THEN [j \in 1..Len(kc) |-> kc[Len(kc) + 1 - j]] ELSE kc

\* np.linspace(-150, 150, 30000): point k (from 0) is -150 + 300 k / GridSteps;
\* temperatures on the grid are kept as integers, multiplied by GridSteps
GridSteps == 29999

GridPoint(k) == 300 * k - 150 * GridSteps

\* values[j] = int(j * 255 / (len(temps) - 1)), j counted from 1 here
EnhancementStop(family, j) == ((j - 1) * 255) \div (Len(KeyTemps(family)) - 1)

\* np.interp(temp_celsius, temps, values).astype(np.uint8) at grid point k
interp_enhancement(family, k) ==
    LET t == KeyTemps(family)
        n == Len(t)
        G == GridPoint(k)
    IN  IF G <= t[1] * GridSteps THEN EnhancementStop(family, 1)
        ELSE IF G >= t[n] * GridSteps THEN EnhancementStop(family, n)
        ELSE LET j  == CHOOSE i \in 1..(n - 1) :
                           t[i] * GridSteps <= G /\ G < t[i + 1] * GridSteps
                 D  == (t[j + 1] - t[j]) * GridSteps
                 dv == EnhancementStop(family, j + 1) - EnhancementStop(family, j)
             IN  (EnhancementStop(family, j) * D + (G - t[j] * GridSteps) * dv) \div D

\* (255.0 - np.clip(normalized * 255.0, 0.0, 255.0)).astype(np.uint8) at grid
\* point k, normalized = (temp - t_min) / (t_max - t_min), t_min -83, t_max 127
linear_enhancement(k) ==
    LET den == 210 * GridSteps
        x   == 255 * (GridPoint(k) + 83 * GridSteps)
    IN  (255 * den - np_clip(x, 0, 255 * den)) \div den

\* temp_lut['enhanced'][k] of _create_temperature_enhancement_lut
temperature_lut(family, k) ==
    IF family = "shortwave" THEN linear_enhancement(k) ELSE interp_enhancement(family, k)

\* enh_idx of create_combined_temperature_to_rgb_lut for a temperature T in
\* whole degrees: np.interp(temp, temp_lut['temp_celsius'], temp_lut['enhanced'])
\* between the two grid points around T, then int(np.clip(enh_val, 0, 255))
enhancement_index(family, T) ==
    LET num == (T + 150) * GridSteps
        k1  == num \div 300
        w   == num % 300
        e1  == temperature_lut(family, k1)
    IN  IF w = 0 THEN e1
        ELSE (300 * e1 + w * (temperature_lut(family, k1 + 1) - e1)) \div 300

\* row idx of _create_color_lut: np.interp(indices, positions, channel) with
\* indices = idx / 255 and positions = (temp - temps[0]) / (temps[-1] - temps[0]),
\* stored as uint8
color_lut(family, idx) ==
    LET t    == KeyTemps(family)
        cs   == ColorStops(family)
        n    == Len(t)
        X    == idx * (t[n] - t[1])
        P(j) == 255 * (t[j] - t[1])
    IN  IF X <= P(1) THEN cs[1]
        ELSE IF X >= P(n) THEN cs[n]
        ELSE LET j  == CHOOSE i \in 1..(n - 1) : P(i) <= X /\ X < P(i + 1)
                 DD == P(j + 1) - P(j)
             IN  [ch \in 1..3 |->
                     (cs[j][ch] * DD + (X - P(j)) * (cs[j + 1][ch] - cs[j][ch])) \div DD]

\* rgb_lut row for temperature T: color_lut[enh_idx].  The arithmetic of the
\* stages is exact here; float64 differs from it only where an interpolated
\* value is a whole number
temperature_to_rgb(c, T) == color_lut(IRFamily(c), enhancement_index(IRFamily(c), T))

\* the key temperatures of every IR channel code
KeyInputs ==
    {[routine |-> "create_combined_temperature_to_rgb_lut", code |-> c, key |-> i] :
        c \in IRCodes, i \in 1..Len(KeyTemps("shortwave"))}

ColorInit ==
    /\ CellIdle
    /\ AngleIdle
    /\ RgbIdle
    /\ SceneIdle
    /\ ConfIdle
    /\ LutIdle
    /\ pure_args \in {a \in KeyInputs : a.key <= Len(KeyTemps(IRFamily(a.code)))}
    /\ pure_result = <<>>

\* the row of the combined table at the key temperature
lut_lookup ==
    /\ pure_args.routine = "create_combined_temperature_to_rgb_lut"
    /\ pure_result = <<>>
    /\ LET T == KeyTemps(IRFamily(pure_args.code))[pure_args.key]
       IN  pure_result' = <<[temp |-> T,
                             enh_idx |-> enhancement_index(IRFamily(pure_args.code), T),
                             rgb |-> temperature_to_rgb(pure_args.code, T)]>>
    /\ UNCHANGED <<cellVars, angleVars, rgbVars, sceneVars, confVars, lutVars, pure_args>>

ColorNext == lut_lookup

ColorSpec == ColorInit /\ [][ColorNext]_vars

\* ------------------------------------------------------------------------
\* Resampling of the radiance to the task's target shape
\* ------------------------------------------------------------------------
MaxShapeSide == 3

ChannelCodes == NativeCodes \cup Upscale2xCodes \cup Upscale4xCodes

\* an array: its shape and what its values are
Radiance(shape) == [shape |-> shape, values |-> "radiance"]

\* a zoom factor is a pair of quotients <<numerator, denominator>>
ZoomFactor(target_shape, current_shape) ==
    <<<<target_shape[1], current_shape[1]>>, <<target_shape[2], current_shape[2]>>>>

\* zoom_factor == (k, k)
ZoomIs(zoom_factor, k) ==
    /\ zoom_factor[1][1] = k * zoom_factor[1][2]
    /\ zoom_factor[2][1] = k * zoom_factor[2][2]

\* int(side * factor)
int_times(side, factor) == (side * factor[1]) \div factor[2]

\* variant: no early return for the zoom factor (1.0, 1.0)
fast_upscale_array_always_resamples(data, zoom_factor) ==
    [shape |-> <<int_times(data.shape[1], zoom_factor[1]),
                 int_times(data.shape[2], zoom_factor[2])>>,
     values |-> "upscaled"]

\* the 2x, the 4x and the bilinear branch fill np.zeros(target_shape) alike
fast_upscale_array(data, zoom_factor) ==
    IF ZoomIs(zoom_factor, 1) THEN data
    ELSE [shape |-> <<int_times(data.shape[1], zoom_factor[1]),
                      int_times(data.shape[2], zoom_factor[2])>>,
          values |-> "upscaled"]

\* lines 1378-1383: the radiance the worker goes on with
upscale_radiance(radiance, current_shape, target_shape) ==
    IF current_shape # target_shape
    THEN LET zoom_factor == ZoomFactor(target_shape, current_shape)
         IN  IF ~ZoomIs(zoom_factor, 1)
             THEN fast_upscale_array(radiance, zoom_factor)
             ELSE radiance
    ELSE radiance

Shapes == (1..MaxShapeSide) \X (1..MaxShapeSide)

ResampleInit ==
    /\ CellIdle
    /\ AngleIdle
    /\ RgbIdle
    /\ SceneIdle
    /\ ConfIdle
    /\ LutIdle
    /\ pure_args \in
           [routine : {"standard_conus_worker"}, channel_code : ChannelCodes,
            native_shape : Shapes]
           \cup [routine : {"fast_upscale_array"}, shape : Shapes, zoom : {1, 2, 4}]
    /\ pure_result = <<>>

\* the task of one channel: target shape from the requirement table, then the
\* worker's upscaling step
worker_upscale ==
    /\ pure_args.routine = "standard_conus_worker"
    /\ pure_result = <<>>
    /\ LET native_shape == pure_args.native_shape
           target_shape == get_standard_target_shape(pure_args.channel_code, native_shape)
       IN  pure_result' = <<upscale_radiance(Radiance(native_shape), native_shape,
                                             target_shape)>>
    /\ UNCHANGED <<cellVars, angleVars, rgbVars, sceneVars, confVars, lutVars, pure_args>>

\* fast_upscale_array(data, (zoom, zoom))
call_fast_upscale_array ==
    /\ pure_args.routine = "fast_upscale_array"
    /\ pure_result = <<>>
    /\ pure_result' = <<fast_upscale_array(Radiance(pure_args.shape),
                                           <<<<pure_args.zoom, 1>>, <<pure_args.zoom, 1>>>>)>>
    /\ UNCHANGED <<cellVars, angleVars, rgbVars, sceneVars, confVars, lutVars, pure_args>>

ResampleNext == worker_upscale \/ call_fast_upscale_array

ResampleSpec == ResampleInit /\ [][ResampleNext]_vars

\* ------------------------------------------------------------------------
\* Target shapes of the channels of one catalog product
\* ------------------------------------------------------------------------
\* RESOLUTION_MAP: pixels of the finest class per pixel of the channel's class
\* (0.5 km: C02, C04; 1.0 km: C01, C03, C05, C06; 2.0 km: C07-C16)
ResolutionClass(c) ==
    IF c \in {"C02", "C04"} THEN 1
    ELSE IF c \in {"C01", "C03", "C05", "C06"} THEN 2
    ELSE 4

\* the shapes of the finest class: both sides are multiples of four
ReferenceShapes == {<<4 * a, 4 * b>> : a \in 1..MaxShapeSide, b \in 1..MaxShapeSide}

\* raw_data['native_shape'] of a channel of the scene
NativeShapeAt(c, reference_shape) ==
    <<reference_shape[1] \div ResolutionClass(c), reference_shape[2] \div ResolutionClass(c)>>

ProductInit ==
    /\ CellIdle
    /\ AngleIdle
    /\ RgbIdle
    /\ SceneIdle
    /\ ConfIdle
    /\ LutIdle
    /\ pure_args \in [routine : {"get_standard_target_shape"},
                      product : DOMAIN RGB_CATALOG, reference_shape : ReferenceShapes]
    /\ pure_result = <<>>

\* the target shapes of the tasks of the product's channels, in catalog order
product_target_shapes ==
    /\ pure_args.routine = "get_standard_target_shape"
    /\ pure_result = <<>>
    /\ LET product_channels == RGB_CATALOG[pure_args.product].channels
       IN  pure_result' =
               <<[k \in 1..Len(product_channels) |->
                     get_standard_target_shape(
                         product_channels[k], NativeShapeAt(product_channels[k], pure_args.reference_shape))]>>
    /\ UNCHANGED <<cellVars, angleVars, rgbVars, sceneVars, confVars, lutVars, pure_args>>

ProductNext == product_target_shapes

ProductSpec == ProductInit /\ [][ProductNext]_vars

\* ------------------------------------------------------------------------
\* The reads of the configuration globals, in the order the cells make them
\* ------------------------------------------------------------------------
\* 'NAME' in globals()
in_globals(name) == settings[name] # <<>>

\* globals().get('NAME', default), DOWNLOAD_CONFIG.get('domain_type', default)
globals_get(name, default) ==
    IF settings[name] # <<>> THEN settings[name][1] ELSE default

ConfInit ==
    /\ CellIdle
    /\ AngleIdle
    /\ RgbIdle
    /\ SceneIdle
    /\ LutIdle
    /\ PureIdle
    /\ settings \in [domain_type : {<<>>, <<"conus">>, <<"full_disk">>},
                     MAX_PARALLEL_WORKERS : {<<>>, <<1>>, <<4>>},
                     ENABLE_PARALLEL_PROCESSING : {<<>>, <<TRUE>>, <<FALSE>>},
                     ENABLE_SOLAR_ANGLES : {<<>>, <<TRUE>>, <<FALSE>>},
                     ENABLE_ULTRA_FAST_IR_LUTS : {<<>>, <<TRUE>>, <<FALSE>>},
                     COMPRESS_STORED_DATA : {<<>>, <<TRUE>>, <<FALSE>>},
                     CHANNELS_TO_PROCESS : {<<>>, <<"None">>, <<"list">>},
                     RGB_PRODUCTS_TO_CREATE : {<<>>, <<"empty">>, <<"list">>}]
    /\ conf_pc = "prologue"
    /\ effective = NoSettings
    /\ conf_error = {}

\* line 30: DOMAIN_TYPE = DOWNLOAD_CONFIG.get('domain_type', 'conus')
conf_detect ==
    /\ conf_pc = "prologue"
    /\ effective' = [effective EXCEPT
                        !.domain_type = <<globals_get("domain_type", "conus")>>]
    /\ conf_pc' = "print"
    /\ UNCHANGED <<cellVars, angleVars, rgbVars, sceneVars, lutVars, pureVars,
                   settings, conf_error>>

\* line 1907: the configuration summary reads CHANNELS_TO_PROCESS by its bare
\* name; an unbound name raises NameError at the top level of cell 4
conf_print_configuration ==
    /\ conf_pc = "print"
    /\ IF in_globals("CHANNELS_TO_PROCESS")
       THEN conf_pc' = "select" /\ UNCHANGED conf_error
       ELSE /\ conf_pc' = "raised"
            /\ conf_error' = conf_error \cup {"NameError: CHANNELS_TO_PROCESS"}
    /\ UNCHANGED <<cellVars, angleVars, rgbVars, sceneVars, lutVars, pureVars,
                   settings, effective>>

\* lines 1174-1177, 1599-1602, 1752-1755: the channel list of the run
conf_select_channels ==
    /\ conf_pc = "select"
    /\ effective' = [effective EXCEPT !.CHANNELS_TO_PROCESS =
           <<IF in_globals("CHANNELS_TO_PROCESS")
                /\ settings.CHANNELS_TO_PROCESS[1] # "None"
             THEN "list" ELSE "all downloaded">>]
    /\ conf_pc' = "pool"
    /\ UNCHANGED <<cellVars, angleVars, rgbVars, sceneVars, lutVars, pureVars,
                   settings, conf_error>>

\* lines 1240-1241, 1650-1651, 1805-1806
conf_read_pool ==
    /\ conf_pc = "pool"
    /\ effective' = [effective EXCEPT
           !.MAX_PARALLEL_WORKERS = <<globals_get("MAX_PARALLEL_WORKERS", 4)>>,
           !.ENABLE_PARALLEL_PROCESSING =
               <<globals_get("ENABLE_PARALLEL_PROCESSING", TRUE)>>]
    /\ conf_pc' = "worker"
    /\ UNCHANGED <<cellVars, angleVars, rgbVars, sceneVars, lutVars, pureVars,
                   settings, conf_error>>

\* the task of an infrared channel: enhance_ir_channel reads
\* ENABLE_ULTRA_FAST_IR_LUTS by its bare name (line 415; ULTRA_FAST_IR and
\* NUMBA_AVAILABLE are always true, lines 14 and 340), the NameError of an
\* unbound name is caught by the worker, which returns success False
\* (lines 886-894); otherwise the worker goes on to line 867
conf_worker ==
    /\ conf_pc = "worker"
    /\ IF in_globals("ENABLE_ULTRA_FAST_IR_LUTS")
       THEN /\ effective' = [effective EXCEPT
                   !.ENABLE_ULTRA_FAST_IR_LUTS = settings.ENABLE_ULTRA_FAST_IR_LUTS,
                   !.COMPRESS_STORED_DATA =
                       <<globals_get("COMPRESS_STORED_DATA", TRUE)>>]
            /\ UNCHANGED conf_error
       ELSE /\ conf_error' = conf_error \cup
                   {"channel failed: NameError: ENABLE_ULTRA_FAST_IR_LUTS"}
            /\ UNCHANGED effective
    /\ conf_pc' = "solar"
    /\ UNCHANGED <<cellVars, angleVars, rgbVars, sceneVars, lutVars, pureVars,
                   settings>>

\* lines 1311, 1721, 1876
conf_read_solar ==
    /\ conf_pc = "solar"
    /\ effective' = [effective EXCEPT
           !.ENABLE_SOLAR_ANGLES = <<globals_get("ENABLE_SOLAR_ANGLES", TRUE)>>]
    /\ conf_pc' = "cell5"
    /\ UNCHANGED <<cellVars, angleVars, rgbVars, sceneVars, lutVars, pureVars,
                   settings, conf_error>>

\* lines 1988-1989: cell 5 refuses to run without RGB_PRODUCTS_TO_CREATE
conf_cell5_prerequisites ==
    /\ conf_pc = "cell5"
    /\ IF in_globals("RGB_PRODUCTS_TO_CREATE")
       THEN conf_pc' = "products" /\ UNCHANGED conf_error
       ELSE /\ conf_pc' = "raised"
            /\ conf_error' = conf_error \cup {"ValueError: RGB_PRODUCTS_TO_CREATE"}
    /\ UNCHANGED <<cellVars, angleVars, rgbVars, sceneVars, lutVars, pureVars,
                   settings, effective>>

\* line 3128: an empty request means the whole catalog
conf_requested_products ==
    /\ conf_pc = "products"
    /\ effective' = [effective EXCEPT !.RGB_PRODUCTS_TO_CREATE =
           <<IF settings.RGB_PRODUCTS_TO_CREATE[1] = "list"
             THEN "list" ELSE "all catalog">>]
    /\ conf_pc' = "done"
    /\ UNCHANGED <<cellVars, angleVars, rgbVars, sceneVars, lutVars, pureVars,
                   settings, conf_error>>

ConfNext ==
    \/ conf_detect
    \/ conf_print_configuration
    \/ conf_select_channels
    \/ conf_read_pool
    \/ conf_worker
    \/ conf_read_solar
    \/ conf_cell5_prerequisites
    \/ conf_requested_products

ConfSpec == ConfInit /\ [][ConfNext]_vars

\* ------------------------------------------------------------------------
\* Specification
\* ------------------------------------------------------------------------
Next ==
    \/ Route
    \/ \E o \in {"fail_early", "fail_late", "partial", "ok"}, b \in BOOLEAN :
           load_level1b_data(o, b)
    \/ \E o \in BOOLEAN : load_level2_open(o)
    \/ \E o \in {"missing", "exception", "ok"}, b \in BOOLEAN : load_level2_data(o, b)
    \/ \E par \in {"on", "off"} : BuildTasks(par)
    \/ \E c \in Codes : WorkerStart(c)
    \/ \E c \in Codes : WorkerRun(c)
    \/ \E c \in Codes : Collect(c)
    \/ SequentialStep
    \/ \E en \in {"on", "off"}, n \in {0, MaxCoordLen},
          f \in {"none", "before_time", "after_time"} : SolarStep(en, n, f)
    \/ ExportVariables
    \/ generate_all_rgb_products

Spec == Init /\ [][Next]_vars

\* a run whose files all read, up to the end of its processing phase
PoolNext ==
    \/ Route
    \/ \E b \in BOOLEAN : load_level1b_data("ok", b)
    \/ load_level2_open(TRUE)
    \/ \E b \in BOOLEAN : load_level2_data("ok", b)
    \/ \E par \in {"on", "off"} : BuildTasks(par)
    \/ \E c \in Codes : WorkerStart(c)
    \/ \E c \in Codes : WorkerRun(c)
    \/ \E c \in Codes : Collect(c)
    \/ SequentialStep

\* a fair pool: a free pool thread takes the next queued task
\* (ThreadPoolExecutor work queue), a running worker function reaches its
\* return statement, and as_completed hands every finished future to the
\* result loop
PoolFairness ==
    /\ \A c \in Codes : WF_vars(WorkerStart(c))
    /\ \A c \in Codes : WF_vars(WorkerRun(c))
    /\ \A c \in Codes : WF_vars(Collect(c))

FairSpec == Init /\ [][PoolNext]_vars /\ PoolFairness

\* ------------------------------------------------------------------------
\* Properties
\* ------------------------------------------------------------------------
\* the channel phase of the run is over: every task was executed and consumed
PhaseTwoOver ==
    /\ enable_parallel # "unread"
    /\ pc \in {"solar", "returned", "exported", "rgb", "raised"}

FailingTasks == {c \in TaskCodes : Get(raw_data_store, c).bad}

\* C1: the selected path is one of the three paths, chosen with the priority
\* level2_aware (data level is level2 or a download summary is present, also
\* for a full-disk domain), then enhanced_full_disk (full-disk domain), then
\* standard_conus; it is fixed by (summary, data level, domain type) alone.
C1_PathSelection ==
    /\ processing_path \in {"none", "level2_aware", "enhanced_full_disk", "standard_conus"}
    /\ pc # "route" =>
        /\ (DATA_LEVEL = "level2" \/ HAS_DOWNLOAD_SUMMARY) => processing_path = "level2_aware"
        /\ (DATA_LEVEL # "level2" /\ ~HAS_DOWNLOAD_SUMMARY /\ DOMAIN_TYPE = "full_disk")
              => processing_path = "enhanced_full_disk"
        /\ (DATA_LEVEL # "level2" /\ ~HAS_DOWNLOAD_SUMMARY /\ DOMAIN_TYPE # "full_disk")
              => processing_path = "standard_conus"

\* a summary is present and the domain is full disk: level2_aware wins
C1_Witness ==
    /\ pc = "load"
    /\ HAS_DOWNLOAD_SUMMARY
    /\ DATA_LEVEL = "level1b"
    /\ DOMAIN_TYPE = "full_disk"
    /\ processing_path = "level2_aware"

\* C2: whatever subset of the channel tasks fails, the channel phase runs to
\* its end without raising, every failing channel is left out of the store
\* and counted as failed, and every channel whose task succeeds is stored.
C2_FailureIsolation ==
    /\ [](PhaseTwoOver =>
            /\ failed = Cardinality(FailingTasks)
            /\ successful = Cardinality(TaskCodes \ FailingTasks)
            /\ DOMAIN channels = TaskCodes \ FailingTasks)
    /\ [][(pc \in {"pool", "seq"}) => (pc' \in {"pool", "seq", "solar"})]_vars

\* a pooled run in which one task failed and another one was stored
C2_Witness ==
    /\ pc = "returned"
    /\ enable_parallel = "on"
    /\ Len(tasks) > 1
    /\ failed = 1
    /\ FailingTasks # {}
    /\ DOMAIN channels # {}

\* C3: the store is append-only during a run and store_channel is called at
\* most once per channel code, so no call targets a code that is present.
C3_WrittenOnce ==
    /\ [](\A c \in Codes : store_calls[c] <= 1)
    /\ [][\A c \in DOMAIN channels :
            (c \in DOMAIN channels' /\ channels'[c] = channels[c])]_vars

\* a channel that is listed twice was loaded twice and stored once
C3_Witness ==
    /\ pc = "returned"
    /\ Len(channels_to_process) = 2
    /\ channels_to_process[1] = channels_to_process[2]
    /\ load_log = <<"ok", "ok">>
    /\ store_calls[channels_to_process[1]] = 1

\* the store that sequential execution of the task list produces
RECURSIVE SequentialStore(_, _)
SequentialStore(k, acc) ==
    IF k > Len(tasks) THEN acc
    ELSE LET r == Worker(tasks[k])
         IN  SequentialStore(k + 1, IF r.success
                                    THEN (r.channel_code :> StoredEntry(r)) @@ acc
                                    ELSE acc)

\* C4: for the loaded records of the run, the store content after the channel
\* phase is the content sequential execution of the tasks gives, whatever
\* order the pooled tasks completed in.
C4_OrderIndependent ==
    PhaseTwoOver => channels = SequentialStore(1, [c \in {} |-> 0])

\* a pooled run whose second task was merged before its first task
C4_Witness ==
    /\ pc = "returned"
    /\ enable_parallel = "on"
    /\ Len(tasks) = 2
    /\ Len(metadata_order) = 2
    /\ metadata_order[1] = tasks[2].channel_code

\* a pool thread moves the future of channel c in this step
TaskStep(c) == pc = "pool" /\ status'[c] # status[c]

\* C5 as stated: a step of a channel task changes no shared object other
\* than the channel store and the projection context; here, in particular,
\* it leaves the enhancement-table cache of ULTRA_FAST_IR alone.
C5_TasksTouchOnlyStoreAndProjection ==
    [][\A c \in Codes : TaskStep(c) => (luts' = luts)]_vars

\* C5 amended: a step of a channel task changes no shared object other than
\* the enhancement-table cache, to which it adds at most the entry of its own
\* channel code; store, projection context, raw records and task list stay
\* as they are.
C5_TasksTouchOnlyOwnTables ==
    [][\A c \in Codes : TaskStep(c) =>
            (/\ luts \subseteq luts'
             /\ luts' \subseteq (luts \cup {c})
             /\ UNCHANGED <<storeVars, solarVars, loadVars, tasks, collected>>)]_vars

\* an IR task has cached its table while another IR task is still running
C5_Witness ==
    /\ pc = "pool"
    /\ \E c \in luts, d \in Running : c # d /\ ChannelTypeOf(d) = "ir" /\ status[c] = "ok"

LoadingOver == pc \notin {"route", "load"}

AllTasksConsumed ==
    /\ enable_parallel # "unread"
    /\ successful + failed = Len(tasks)
    /\ \A c \in Codes : status[c] \notin {"pending", "running"}
    /\ (pc = "pool" \/ collected # {}) => collected = TaskCodes
    /\ seq_k = 0 \/ seq_k > Len(tasks) \/ pc = "pool"

\* C7: solar angles are computed at most once per run, and the computation
\* starts only when every channel task has completed and been merged or
\* counted.
C7_SolarOnceAfterAllTasks ==
    /\ [](solar_calls <= 1)
    /\ [][(solar_calls' # solar_calls) => AllTasksConsumed]_vars

\* solar angles were computed after a pooled run of two tasks, one failing
C7_Witness ==
    /\ solar_calls = 1
    /\ enable_parallel = "on"
    /\ Len(tasks) = 2
    /\ failed = 1
    /\ collected = TaskCodes

\* the solar step of the run is over (or was never due: nothing loaded)
SolarStepOver == enable_solar # "unread" \/ (raw_data_store = <<>> /\ tasks = <<>>)

\* C8: the RGB pass starts only when all channel tasks have completed and the
\* solar step is over, and from then on channel store and solar grid do not
\* change.
C8_CompositingAfterSolar ==
    /\ [](rgb_runs > 0 =>
            /\ SolarStepOver
            /\ successful + failed = Len(tasks)
            /\ \A c \in Codes : status[c] \notin {"pending", "running"})
    /\ [][(rgb_runs' > 0) => (rgb_runs > 0 \/ (SolarStepOver /\ pc = "exported"))]_vars
    /\ [][(rgb_runs > 0) => UNCHANGED <<channels, solar_angles, coordinate_data>>]_vars

\* the RGB pass runs on two stored channels and a solar grid
C8_Witness ==
    /\ pc = "rgb"
    /\ rgb_runs = 1
    /\ Cardinality(DOMAIN channels) = 2
    /\ solar_angles # "None"

RunReturned == pc \in {"returned", "exported", "rgb"}

C10_SolarNeverRaises ==
    ~(pc = "raised" /\ solar_calls > 0)

\* C11: every defined value of a solar zenith grid lies in [0, 180] degrees,
\* on the normal path and on both fallback paths of both routines, for every
\* minute of the UTC day.
C11_ZenithWithinRange ==
    \A k \in 1..Len(sza) : ~sza[k].nan => (sza[k].v >= Deg(0) /\ sza[k].v <= Deg(180))

\* midnight: the floor of the base angle and the clip decide the value of the
\* first column of the enhanced pattern
C11_Witness ==
    /\ sza_input.path = "pattern"
    /\ sza_input.routine = "enhanced"
    /\ sza_input.minute = 0
    /\ sza_input.column = 0
    /\ sza = <<Num(Deg(10))>>

\* number of entries of a list that are the name n
Occurrences(list, n) == Cardinality({k \in 1..Len(list) : list[k] = n})

\* the worker of product n was called and returned success
WorkerSucceeded(n) == \E k \in 1..Len(attempts) : attempts[k].product = n /\ attempts[k].success

\* C12: when create_rgb_products_unified has returned, a requested product is
\* in the product set iff it is a catalog product, all its required channels
\* are in the store and its worker returned success; and the worker of every
\* requested catalog product with all channels present was called, once per
\* entry of the list, whatever happened to the products before it.
C12_ProductSetIff ==
    rgb_pc = "done" =>
        /\ \A n \in Range(requested_products) :
              (n \in DOMAIN rgb_products) <=>
                  (/\ n \in DOMAIN RGB_CATALOG
                   /\ Range(RGB_CATALOG[n].channels) \subseteq CHANNELS
                   /\ WorkerSucceeded(n))
        /\ DOMAIN rgb_products \subseteq Range(requested_products)
        /\ \A n \in Range(requested_products) :
              (n \in DOMAIN RGB_CATALOG /\ Range(RGB_CATALOG[n].channels) \subseteq CHANNELS)
                  => Occurrences([k \in 1..Len(attempts) |-> attempts[k].product], n)
                        = Occurrences(requested_products, n)

\* a product whose worker failed precedes a product that was stored
C12_Witness ==
    /\ rgb_pc = "done"
    /\ Len(attempts) = 2
    /\ ~attempts[1].success
    /\ attempts[2].success
    /\ attempts[2].product \in DOMAIN rgb_products
    /\ attempts[1].product \notin DOMAIN rgb_products

\* the products whose worker blends day and night formulas by the solar angle
DayNightProducts ==
    {n \in DOMAIN RGB_CATALOG :
        get_rgb_worker_registry[RGB_CATALOG[n].worker] \in DOMAIN DefaultAngle}

\* C13: when there is no solar-angle grid, every requested day/night-aware
\* product whose required channels are all present (and whose worker met no
\* failure of its own) is in the product set, made with its fixed default
\* angle.
C13_DayNightProducedWithoutGrid ==
    (rgb_pc = "done" /\ SOLAR_ANGLES = "None") =>
        \A n \in Range(requested_products) \cap DayNightProducts :
            (/\ Range(RGB_CATALOG[n].channels) \subseteq CHANNELS
             /\ \A k \in 1..Len(attempts) :
                    attempts[k].product = n => ~attempts[k].own_failure)
                => (/\ n \in DOMAIN rgb_products
                    /\ rgb_products[n].sza
                          = DefaultAngle[get_rgb_worker_registry[RGB_CATALOG[n].worker]])

\* C14: in every state in which the authority has not been initialized a call
\* of get_projection_authority raises: before loading, after a load in which
\* no file gave the projection, and during and after a run of the level 2
\* loader; a call never returns None, and once the authority is initialized
\* the call returns the stored one.
C14_AccessorRaisesUntilInitialized ==
    /\ get_projection_authority # "None"
    /\ (authority_inits = 0) = (get_projection_authority = "ValueError")
    /\ UsesLevel2Loader => get_projection_authority = "ValueError"
    /\ authority_inits > 0 => get_projection_authority = GOES_PROJECTION_AUTHORITY

\* a run of the level 2 loader stored a channel and returned: the accessor
\* still raises
C14_Witness ==
    /\ pc = "returned"
    /\ UsesLevel2Loader
    /\ DOMAIN channels # {}
    /\ get_projection_authority = "ValueError"

\* the processing of the current scene has completed
SceneCompleted == pc \in {"returned", "exported", "rgb"}

\* C15 as stated: once a scene's processing has completed the projection
\* context is discarded, and a context in use was built from the scene being
\* processed.
C15_DiscardedAfterScene ==
    /\ SceneCompleted => GOES_PROJECTION_AUTHORITY = "None"
    /\ GOES_PROJECTION_AUTHORITY # "None" => authority_scene = scene

\* C15 amended: the context is not discarded when a scene completes, it stays
\* as it is until cell 4 is executed again; that execution resets it before it
\* loads anything, so the context of every scene is either absent or built
\* during that scene's own loading, from the first of its channels whose file
\* opened.
C15_ContextPerScene ==
    /\ [](/\ (GOES_PROJECTION_AUTHORITY = "None") = (authority_scene = 0)
          /\ GOES_PROJECTION_AUTHORITY # "None" => authority_scene = scene
          /\ (~UsesLevel2Loader /\ pc # "route") =>
                \A k \in 1..Len(load_log) :
                    (load_log[k] # "fail_early" /\ \A j \in 1..(k - 1) : load_log[j] = "fail_early")
                        => GOES_PROJECTION_AUTHORITY = channels_to_process[k])
    /\ [][(scene' # scene) => (GOES_PROJECTION_AUTHORITY' = "None")]_vars
    /\ [][(SceneCompleted /\ scene' = scene)
            => (GOES_PROJECTION_AUTHORITY' = GOES_PROJECTION_AUTHORITY)]_vars

\* the second scene has completed with a context built from its own second
\* channel
C15_Witness ==
    /\ scene = 2
    /\ pc = "exported"
    /\ authority_scene = 2
    /\ Len(load_log) = 2
    /\ load_log[1] = "fail_early"
    /\ GOES_PROJECTION_AUTHORITY = channels_to_process[2]

\* every channel code of the requirement tables
AllChannelCodes == NativeCodes \cup Upscale2xCodes \cup Upscale4xCodes

\* C16: with a full-disk domain, in whichever path is selected, every task's
\* target shape is the channel's native shape, no stored channel was
\* resampled and every stored shape is the native one; the level 2 table
\* gives the native shape for every channel code.
C16_FullDiskNative ==
    DOMAIN_TYPE = "full_disk" =>
        /\ processing_path \in {"none", "level2_aware", "enhanced_full_disk"}
        /\ \A k \in 1..Len(tasks) :
              /\ tasks[k].target_shape = NativeShape(tasks[k].channel_code)
              /\ ~Resampled(tasks[k])
        /\ \A c \in DOMAIN channels :
              /\ channels[c].shape = NativeShape(c)
              /\ "resample" \notin Range(channels[c].calibrated.ops)
        /\ \A c \in AllChannelCodes, h \in 1..2, w \in 1..2 :
              get_target_shape(c, <<h, w>>, DOMAIN_TYPE) = <<h, w>>

\* a full-disk run of the level 2 aware path stored a channel that the table
\* of the other domains upscales four times
C16_Witness ==
    /\ DOMAIN_TYPE = "full_disk"
    /\ processing_path = "level2_aware"
    /\ pc = "returned"
    /\ "C07" \in DOMAIN channels
    /\ channels["C07"].shape = NativeShape("C07")
    /\ get_standard_channel_requirements("C07") = "upscale_4x"

\* the steps of a stored channel's task, in the order they were applied
StepsOf(c) == channels[c].enhanced.ops

\* C17 as stated: in every task the enhancement is the last step and no
\* resampling precedes the calibration.
C17_CalibrateResampleEnhance ==
    \A c \in DOMAIN channels :
        LET ops == StepsOf(c)
        IN  /\ ops[Len(ops)] = "enhance"
            /\ \A i \in 1..Len(ops), j \in 1..Len(ops) :
                  (i < j /\ ops[i] = "resample") => ops[j] # "calibrate"

\* C17 amended: the enhancement is the last step of every task; the worker of
\* the level 2 aware path calibrates (level 1b data only) and then resamples
\* the calibrated array; the worker of the other two paths resamples the raw
\* radiance and then calibrates it; a step of resampling is there exactly if
\* the target shape differs from the native shape.
C17_OrderPerWorker ==
    \A c \in DOMAIN channels :
        LET resample == IF channels[c].shape # NativeShape(c) THEN <<"resample">> ELSE <<>>
            level    == Get(raw_data_store, c).data_level
        IN  StepsOf(c) =
                IF processing_path = "level2_aware"
                THEN (IF level = "level2" THEN <<>> ELSE <<"calibrate">>)
                     \o resample \o <<"enhance">>
                ELSE resample \o <<"calibrate", "enhance">>

\* the standard path stored a channel whose radiance was upscaled before it
\* was calibrated
C17_Witness ==
    /\ processing_path = "standard_conus"
    /\ pc = "returned"
    /\ "C07" \in DOMAIN channels
    /\ StepsOf("C07") = <<"resample", "calibrate", "enhance">>

\* the defaults the configuration section documents
DocumentedDefault ==
    [domain_type |-> "conus", MAX_PARALLEL_WORKERS |-> 4,
     ENABLE_PARALLEL_PROCESSING |-> TRUE, ENABLE_SOLAR_ANGLES |-> TRUE,
     ENABLE_ULTRA_FAST_IR_LUTS |-> TRUE, COMPRESS_STORED_DATA |-> TRUE,
     CHANNELS_TO_PROCESS |-> "all downloaded",
     RGB_PRODUCTS_TO_CREATE |-> "all catalog"]

\* C18: every configuration input is optional: a setting that is left
\* undefined is read as its documented default, and no channel and no run
\* fails because of the missing setting.
C18_UndefinedReadAsDefault ==
    /\ conf_error = {}
    /\ \A name \in DOMAIN settings :
           (settings[name] = <<>> /\ effective[name] # <<>>)
               => effective[name] = <<DocumentedDefault[name]>>

\* the requested channels whose read did not fail
ReadWithoutFailure ==
    {channels_to_process[k] : k \in {j \in 1..Len(load_log) : load_log[j] = "ok"}}

\* C19: a failing read skips exactly that channel: after loading, in either
\* loader, the raw record store holds precisely the requested channels whose
\* read did not fail.
C19_StoreHoldsTheReadableChannels ==
    LoadingOver => Range(Keys(raw_data_store)) = ReadWithoutFailure

\* C20: only the complete absence of any loadable channel is a run-level
\* failure: when no channel loaded, the run ends (it does not raise) with an
\* empty ChannelStore, without a task and without a solar grid; when at least
\* one channel loaded, the processing phase is entered with one task per
\* loaded channel.
C20_RunLevelFailureOnlyWhenNothingLoads ==
    /\ (LoadingOver /\ raw_data_store = <<>>) =>
           /\ pc # "raised"
           /\ tasks = <<>>
           /\ DOMAIN channels = {}
           /\ solar_angles = "None"
           /\ solar_calls = 0
    /\ (LoadingOver /\ raw_data_store # <<>>) =>
           /\ pc # "returned" \/ enable_parallel # "unread"
           /\ [k \in 1..Len(tasks) |-> tasks[k].channel_code] = Keys(raw_data_store)

\* C21: when the processing phase has ended, successful + failed is the
\* number of tasks, which is the number of loaded channels, and the store
\* holds exactly 'successful' entries: one for each channel whose task
\* succeeded and none for a channel whose task failed.
C21_TallyExact ==
    PhaseTwoOver =>
        /\ successful + failed = Len(tasks)
        /\ Len(tasks) = Len(raw_data_store)
        /\ Cardinality(DOMAIN channels) = successful
        /\ DOMAIN channels = {c \in TaskCodes : Worker(TaskOf(c)).success}

\* a sequential run of two tasks, one stored and one failed
C21_Witness ==
    /\ pc = "solar"
    /\ enable_parallel = "off"
    /\ Len(raw_data_store) = 2
    /\ successful = 1
    /\ failed = 1
    /\ Cardinality(DOMAIN channels) = 1

\* C22: no cancellation and no timeout: under a fair pool every dispatched
\* task completes with a success or a failure result, every result is merged
\* or counted, and the processing phase then ends; the pooled branch is never
\* left while a task has not been consumed.
C22_EveryTaskCompletes ==
    /\ \A c \in Codes :
           (pc = "pool" /\ status[c] = "pending")
               ~> (status[c] \in {"ok", "failed"} /\ c \in collected)
    /\ (pc = "pool") ~> (pc = "solar" /\ successful + failed = Len(tasks))
    /\ [][(pc = "pool" /\ pc' # "pool") =>
             (collected' = TaskCodes /\ \A c \in TaskCodes : status'[c] \in {"ok", "failed"})]_vars

\* the pooled branch has ended with both of its tasks counted as failed
C22_Witness ==
    /\ pc = "solar"
    /\ enable_parallel = "on"
    /\ Len(tasks) = 2
    /\ collected = TaskCodes
    /\ failed = 2

\* the pooled branch is the one the run takes
PoolChosen == enable_parallel = "on" /\ Len(tasks) > 1

\* C23: the tasks are executed in the bounded pool exactly when parallel
\* processing is enabled and there is more than one task, otherwise one after
\* the other in task order; in both modes every task is executed exactly once.
C23_PoolOrSequential ==
    /\ [](pc = "pool" => (PoolChosen /\ Cardinality(Running) <= MAX_PARALLEL_WORKERS))
    /\ [](pc = "seq" => (/\ ~PoolChosen
                         /\ \A k \in 1..Len(tasks) :
                                worker_calls[tasks[k].channel_code] =
                                    (IF k < seq_k THEN 1 ELSE 0)))
    /\ [][(worker_calls' # worker_calls) =>
             (\E c \in TaskCodes :
                 /\ worker_calls' = [worker_calls EXCEPT ![c] = 1]
                 /\ worker_calls[c] = 0
                 /\ IF PoolChosen THEN pc = "pool" /\ status[c] = "running"
                    ELSE pc = "seq" /\ c = tasks[seq_k].channel_code)]_vars
    /\ [](PhaseTwoOver =>
             \A c \in Codes : worker_calls[c] = (IF c \in TaskCodes THEN 1 ELSE 0))

\* parallel processing is enabled and the only task ran in the sequential loop
C23_Witness ==
    /\ pc = "solar"
    /\ enable_parallel = "on"
    /\ Len(tasks) = 1
    /\ seq_k = 2
    /\ worker_calls[tasks[1].channel_code] = 1

\* C24: building the enhancement tables is idempotent and cache-stable: each
\* of the three tables of a channel code is constructed at most once, a
\* request for a cached table returns that very table, and a request for one
\* code leaves the cached tables of every other code as they are.
C24_TablesBuiltOnce ==
    /\ [](\A kind \in LutKinds, c \in Codes : lut_builds[kind][c] <= 1)
    /\ [](lut_returned # <<>> =>
             lut_returned = lut_cache[lut_returned[1].kind][lut_returned[1].code])
    /\ [][\A kind \in LutKinds, c \in Codes :
             /\ lut_cache[kind][c] # <<>> => lut_cache'[kind][c] = lut_cache[kind][c]
             /\ (lut_requests' # lut_requests /\ lut_returned'[1].code # c)
                    => lut_cache'[kind][c] = lut_cache[kind][c]]_vars

\* three requests of which one found its table cached: the three tables of
\* one code and the color table of another code are all that was built
C24_Witness ==
    /\ lut_requests = 3
    /\ \E c \in Codes : \E d \in Codes \ {c} :
           /\ \A kind \in LutKinds : lut_builds[kind][c] = 1
           /\ lut_builds["color"][d] = 1
           /\ lut_returned = lut_cache["color"][d]
           /\ \A kind \in LutKinds, x \in Codes :
                  (x # c /\ <<kind, x>> # <<"color", d>>) => lut_builds[kind][x] = 0

\* C25: for each IR channel family the composed temperature -> RGB mapping
\* reproduces the breakpoint colors: at every key temperature the enhancement
\* index of the first stage selects, in the color stage, the key color that
\* is defined for that temperature.
C25_BreakpointColorsExact ==
    (pure_args.routine = "create_combined_temperature_to_rgb_lut" /\ pure_result # <<>>)
        => pure_result[1].rgb = KeyColors(IRFamily(pure_args.code))[pure_args.key]


\* factor of a resampling rule
RuleFactor(requirement) ==
    IF requirement = "upscale_2x" THEN 2
    ELSE IF requirement = "upscale_4x" THEN 4
    ELSE 1

\* round(side * numerator / denominator)
RoundTimes(side, numerator, denominator) ==
    (2 * side * numerator + denominator) \div (2 * denominator)

\* C26: for each resampling rule and native shape the radiance the worker
\* goes on with has the shape round(native x zoom) in both dimensions, which
\* is the task's target shape, and it is the input itself when the target
\* shape equals the native shape; fast_upscale_array called with the zoom
\* factor (k, k) returns that shape too, and its input itself for k = 1.
C26_ResampledShape ==
    /\ (pure_args.routine = "standard_conus_worker" /\ pure_result # <<>>) =>
           LET native == pure_args.native_shape
               target == get_standard_target_shape(pure_args.channel_code, native)
               k == RuleFactor(get_standard_channel_requirements(pure_args.channel_code))
               out == pure_result[1]
           IN  /\ out.shape = <<RoundTimes(native[1], k, 1), RoundTimes(native[2], k, 1)>>
               /\ out.shape = target
               /\ (native = target => out = Radiance(native))
    /\ (pure_args.routine = "fast_upscale_array" /\ pure_result # <<>>) =>
           LET out == pure_result[1]
           IN  /\ out.shape = <<RoundTimes(pure_args.shape[1], pure_args.zoom, 1),
                                RoundTimes(pure_args.shape[2], pure_args.zoom, 1)>>
               /\ (pure_args.zoom = 1 => out = Radiance(pure_args.shape))

\* a quarter-resolution channel of shape 2 x 3 came out of the worker as 8 x 12
C26_Witness ==
    /\ pure_args.routine = "standard_conus_worker"
    /\ pure_args.channel_code = "C13"
    /\ pure_args.native_shape = <<2, 3>>
    /\ pure_result = <<[shape |-> <<8, 12>>, values |-> "upscaled"]>>


\* C27: under the CONUS requirement table, with the native shapes of the
\* three resolution classes, the channels of any one catalog product all get
\* the same target shape.
C27_ProductChannelsShareShape ==
    (pure_args.routine = "get_standard_target_shape" /\ pure_result # <<>>)
        => \A i, j \in DOMAIN pure_result[1] : pure_result[1][i] = pure_result[1][j]


\* C28: in the pooled branch every step that writes the channel store
\* (channels, metadata, coordinate data) is one iteration of the result loop
\* of the orchestrating thread: it consumes the result of exactly one
\* finished task, makes one store_channel call, for that task's channel, and
\* no pool thread moves in it.
C28_StoreWrittenByResultLoopOnly ==
    [][(/\ pc = "pool"
        /\ <<channels, metadata_order, coordinate_data, store_calls>>'
               # <<channels, metadata_order, coordinate_data, store_calls>>)
       => \E c \in Codes :
              /\ status[c] = "ok"
              /\ c \notin collected
              /\ collected' = collected \cup {c}
              /\ store_calls' = [store_calls EXCEPT ![c] = @ + 1]
              /\ DOMAIN channels' = DOMAIN channels \cup {c}
              /\ UNCHANGED <<status, worker_calls>>]_vars

\* the result of one task is in the store while another task is still
\* running in its pool thread
C28_Witness ==
    /\ pc = "pool"
    /\ \E c \in collected, d \in Running :
           /\ c \in DOMAIN channels
           /\ store_calls[c] = 1
           /\ store_calls[d] = 0


\* the tasks, in task order, whose worker returns a success
SucceedingTasks == SelectSeq(tasks, LAMBDA t : Worker(t).success)

\* the scan time of the run whose tasks complete in task order
TaskOrderScanTime ==
    IF SucceedingTasks = <<>> THEN "None"
    ELSE Worker(SucceedingTasks[1]).metadata.time_coverage_start

\* C29: the scan time handed to the solar routine of a pooled run is fixed by
\* the run's tasks: it is the one the run gets when its tasks complete in
\* task order, whichever result was merged into the store first.
C29_ScanTimeOrderIndependent ==
    (PoolChosen /\ scan_time # "unread") => scan_time = TaskOrderScanTime


\* C30: every catalog entry's worker name is a key of the registry and the
\* list 'required' of the function registered under it equals the entry's
\* channel list; and no product that passed the availability check meets the
\* 'worker not found' branch or a 'Missing channels' result.
C30_CatalogRegistryWorkersAgree ==
    /\ \A p \in DOMAIN RGB_CATALOG :
          /\ RGB_CATALOG[p].worker \in DOMAIN get_rgb_worker_registry
          /\ required(get_rgb_worker_registry[RGB_CATALOG[p].worker])
                = RGB_CATALOG[p].channels
    /\ rgb_pc = "create" =>
          LET worker_name == RGB_CATALOG[possible_products[rgb_k]].worker
          IN  /\ worker_name \in DOMAIN get_rgb_worker_registry
              /\ \A own_failure \in BOOLEAN :
                    rgb_worker(get_rgb_worker_registry[worker_name], CHANNELS,
                               SOLAR_ANGLES, own_failure).error # "Missing channels"

\* the store held exactly the channels of the sandwich entry and the worker
\* registered for it made the product
C30_Witness ==
    /\ rgb_pc = "done"
    /\ CHANNELS = Range(RGB_CATALOG["sandwich"].channels)
    /\ possible_products = <<"sandwich">>
    /\ "sandwich" \in DOMAIN rgb_products

====
